---- MODULE Spec2Model ----
(***************************************************************************)
(* State-machine model of the data hooks and the map components of mapgap. *)
(*                                                                         *)
(*   useIndustryData  (src/src/hooks/useCountyData.ts, lines 93-248)       *)
(*   useCountyData    (src/src/hooks/useCountyData.ts, lines 10-75)        *)
(*   DetailPanel      (src/src/components/detail/DetailPanel.tsx)          *)
(*   MapView          (src/unnamed/part_004)                               *)
(*   ChoroplethLayer  (src/unnamed/part_003)                               *)
(*                                                                         *)
(* The rendering engine is the environment of MapView: after setStyle it   *)
(* may keep reporting the loaded style until the new one has arrived or    *)
(* report none at once, and it may or may not emit 'style.load'.           *)
(*                                                                         *)
(* Strings that the code inspects character by character (industry ids)    *)
(* are tuples of one-character strings.  JavaScript null is the tuple      *)
(* <<"null">>, which no id spelled in single characters can equal.         *)
(***************************************************************************)
EXTENDS Integers, Sequences, FiniteSets, TLC

\* ------------------------------------------------------------------------
\* Bounds of the model
\* ------------------------------------------------------------------------
MaxScoreFetches == 3
MaxDemoFetches == 3
MaxCalls == 4
MaxGeoFetches == 2
MaxFillEntries == 3
MaxMemoEntries == 4
MaxFitFeatures == 2
MaxMoves == 3
MaxCatches == 3

\* ------------------------------------------------------------------------
\* Values
\* ------------------------------------------------------------------------
Null == <<"null">>

IdCoffee == <<"c", "1">>
IdGyms == <<"g", "-", "_">>
IdBogus == <<"z", "9">>
IdSlash == <<".", "/">>
IdEmpty == <<>>

\* the ids selectIndustry may be handed (any string)
SelectableIds == {IdCoffee, IdGyms, IdBogus, IdSlash, IdEmpty}

\* payloads industries.json may carry, as the set of their ids
Catalogs == {{IdCoffee, IdGyms}, {IdCoffee, IdSlash}}

Lower == {"a","b","c","d","e","f","g","h","i","j","k","l","m",
          "n","o","p","q","r","s","t","u","v","w","x","y","z"}
Upper == {"A","B","C","D","E","F","G","H","I","J","K","L","M",
          "N","O","P","Q","R","S","T","U","V","W","X","Y","Z"}
Digit == {"0","1","2","3","4","5","6","7","8","9"}

\* /^[a-zA-Z0-9_-]+$/.test(id)
ID_FORMAT(id) ==
    /\ Len(id) >= 1
    /\ \A i \in 1..Len(id) : id[i] \in Lower \cup Upper \cup Digit \cup {"_", "-"}

\* !selectedIndustryId : null and the empty string are both falsy
IsFalsyId(id) == id = Null \/ id = <<>>

NoError == <<>>
ErrBadFormat == <<"Unknown industry ID">>
ErrUnknownId(id) == <<"Unknown industry ID: ">> \o id
ScoreFailures == {<<"Failed to load scores: ", "404">>, <<"Failed to fetch">>}
CatalogFailures == {<<"Failed to load industries: ", "500">>, <<"Failed to fetch">>}

\* a parsed score payload: the industry whose file it is, and the identity of
\* the object (each response.json() builds a new object)
NoScores == [industry |-> Null, obj |-> 0]
ScoreObject(id, n) == [industry |-> id, obj |-> n]

AllStates == "<all>"
StateAbbrs == {"TX"}

VARIABLES
    \* ---- useIndustryData ----
    mounted,             \* the hook's component is mounted
    selectedIndustryId,  \* prop
    stateFilter,         \* prop
    industries,          \* state: catalog ids
    industriesRef,       \* industriesRef.current
    industriesLoading,
    industriesError,
    catalogPending,      \* the industries.json fetch has not resolved
    catalogCancelled,    \* `cancelled` of the mount effect
    rawScores,
    scoresLoading,
    scoresError,
    scoreCache,          \* scoreCache.current : id -> object
    scoreRequests,       \* network log: the id of every score fetch issued
    pending,             \* indices of scoreRequests not yet resolved
    cancelledLoads,      \* indices whose closure has cancelled = true
    effectLoad,          \* load started by the current effect run, 0 if none
    settled,             \* log: [n, ok, live] of every resolved score fetch
    \* ---- useCountyData ----
    demoState,           \* state, with every queued setState applied
    stateRef,            \* stateRef.current : the state as of the last render
    fetchedRef,          \* fetchedRef.current
    promiseRef,          \* promiseRef.current : a promise, 0 for null
    promises,            \* network log: the status of every demographics fetch
    calls,               \* every ensureLoaded() invocation and what it returned
    \* ---- App / DetailPanel ----
    selectedCountyFips,  \* useMapState: the county of the detail panel, or Null
    \* ---- MapView ----
    theme,               \* useTheme().theme
    osDark,              \* matchMedia('(prefers-color-scheme: dark)').matches
    mapScores,           \* prop scores
    metric,              \* prop metric
    mapReady,
    geojsonStatus,
    geojsonRef,          \* geojsonRef.current : the cached geometry, or NoGeo
    styleListener,       \* onStyleLoad of the last style-switch run is registered
    timerArmed,          \* the fallback timer of the last style-switch run is set
    swapSettled,         \* `settled` of the last style-switch run
    retryLog,            \* log: what the last Retry click on the mounted layer led to
    clickLog,            \* log: the onCountyClick calls of the last click on the mounted layer
    \* ---- ChoroplethLayer (mounted while mapReady) ----
    loadedRef,           \* loadedRef.current
    geoRequests,         \* network log: the status of every geometry fetch
    geoCancelled,        \* geometry fetches whose closure has cancelled = true
    geoEffectLoad,       \* fetch started by the current effect run, 0 if none
    \* ---- the rendering engine (maplibregl.Map) ----
    engine,              \* "live" from new Map(...) until map.remove()
    removals,            \* number of map.remove() calls
    loadFired,           \* 'load' has been emitted
    engineStyle,         \* the style getStyle() reports, NoStyle while none is loaded
    requestedStyle,      \* the style last asked for (constructor or setStyle)
    stylePending,        \* the requested style has not finished loading
    hasSource,           \* getSource('counties'), with both layers
    sourceData,          \* the data of that source
    fillColor,           \* paint property fill-color of county-fill
    clickListeners,      \* click handlers registered on county-fill
    \* ---- calls of the pure functions ----
    fillCall,            \* buildFillColorExpression: its arguments and its value
    memoCall,            \* the scores and topCounties memos: their inputs and values
    fitCall,             \* the fit-bounds effect: its inputs and its engine call
    \* ---- MapTooltip ----
    tipMounted,          \* the component is mounted
    tipListeners,        \* the events of the fill layer its handlers are registered for
    tipScores,           \* scoresRef.current
    rafRef,              \* rafRef.current: a frame handle, 0 for null
    rafNext,             \* the handle the next requestAnimationFrame returns
    rafQueue,            \* the browser's scheduled frame callbacks, in order
    tooltip,             \* state
    burst,               \* the pointer-moves since the last frame or leave
    frameLog,            \* what the last animation frame since the last leave did
    leaveMark            \* the last pointer-leave on this instance (at: rafNext
                         \* then, 0 if none) and rafRef.current as that leave or
                         \* the cleanup found it
    ,
    \* ---- MapErrorBoundary ----
    hasError,            \* state.hasError
    childFault,          \* the error the children throw when rendered, or NoFault
    rendered,            \* what the boundary's last render returned
    consoleLog,          \* the errors componentDidCatch logged
    appCrashed,          \* a render error reached the components above the boundary
    \* ---- MapView: the stateFilter prop and its effect ----
    mapFilter,           \* prop stateFilter of MapView
    fitLog               \* the last run of the fit-bounds effect

ivars == <<mounted, selectedIndustryId, stateFilter, industries, industriesRef,
           industriesLoading, industriesError, catalogPending, catalogCancelled,
           rawScores, scoresLoading, scoresError, scoreCache, scoreRequests,
           pending, cancelledLoads, effectLoad, settled>>

cvars == <<demoState, stateRef, fetchedRef, promiseRef, promises, calls>>

dvars == <<selectedCountyFips>>

mvars == <<theme, osDark, mapScores, metric, mapReady, geojsonStatus, geojsonRef,
           styleListener, timerArmed, swapSettled, loadedRef, geoRequests,
           geoCancelled, geoEffectLoad, engine, removals, loadFired,
           engineStyle, requestedStyle, stylePending, hasSource, sourceData,
           fillColor, clickListeners, retryLog, clickLog>>

\* the two logs of MapView
mlog == <<retryLog, clickLog>>

pvars == <<fillCall, memoCall, fitCall>>
tvars == <<tipMounted, tipListeners, tipScores, rafRef, rafNext, rafQueue, tooltip, burst,
           frameLog, leaveMark>>

bvars == <<hasError, childFault, rendered, consoleLog, appCrashed>>

fvars == <<mapFilter, fitLog>>

nonIndustry == <<cvars, dvars, mvars, pvars, tvars, bvars, fvars>>
nonCounty == <<ivars, mvars, pvars, tvars, bvars, fvars>>
\* the map's events leave fvars to the fit-bounds effect (FitEffect)
nonMap == <<ivars, cvars, dvars, pvars, tvars, bvars>>
nonTooltip == <<ivars, cvars, dvars, mvars, pvars, bvars, fvars>>
nonBoundary == <<ivars, cvars, dvars, mvars, pvars, tvars, fvars>>

vars == <<ivars, cvars, dvars, mvars, pvars, tvars, bvars, fvars>>

\* ------------------------------------------------------------------------
\* useIndustryData
\* ------------------------------------------------------------------------
InitIndustry ==
    /\ mounted = TRUE
    /\ selectedIndustryId = Null
    /\ stateFilter = AllStates
    /\ industries = {}
    /\ industriesRef = {}
    /\ industriesLoading = TRUE
    /\ industriesError = NoError
    /\ catalogPending = TRUE
    /\ catalogCancelled = FALSE
    /\ rawScores = NoScores
    /\ scoresLoading = FALSE
    /\ scoresError = NoError
    /\ scoreCache = [id \in SelectableIds |-> NoScores]
    /\ scoreRequests = <<>>
    /\ pending = {}
    /\ cancelledLoads = {}
    /\ effectLoad = 0
    /\ settled = {}

\* which return of the score effect is taken
\* (variant: the two validation returns left out)
EffectBranch_NoValidation(id, loading, ref, cache) ==
    IF IsFalsyId(id) \/ loading THEN "reset"
    ELSE IF cache[id] # NoScores THEN "cached"
    ELSE "fetch"
EffectBranch(id, loading, ref, cache) ==
    IF IsFalsyId(id) \/ loading THEN "reset"
    ELSE IF ~ID_FORMAT(id) THEN "badformat"
    ELSE IF id \notin ref THEN "unknown"
    ELSE IF cache[id] # NoScores THEN "cached"
    ELSE "fetch"

\* the cleanup of the previous effect run: cancelled = true
Cleanup == cancelledLoads \cup (IF effectLoad = 0 THEN {} ELSE {effectLoad})

\* cleanup of the previous run, then the body of the score effect
RunScoreEffect(id, loading, ref) ==
    LET branch == EffectBranch(id, loading, ref, scoreCache) IN
    /\ cancelledLoads' = Cleanup
    /\ scoreCache' = scoreCache
    /\ settled' = settled
    /\ CASE branch = "reset" ->
              /\ rawScores' = NoScores
              /\ scoresError' = NoError
              /\ scoresLoading' = FALSE
              /\ effectLoad' = 0
              /\ UNCHANGED <<scoreRequests, pending>>
         [] branch = "badformat" ->
              /\ scoresError' = ErrBadFormat
              /\ rawScores' = NoScores
              /\ scoresLoading' = FALSE
              /\ effectLoad' = 0
              /\ UNCHANGED <<scoreRequests, pending>>
         [] branch = "unknown" ->
              /\ scoresError' = ErrUnknownId(id)
              /\ rawScores' = NoScores
              /\ scoresLoading' = FALSE
              /\ effectLoad' = 0
              /\ UNCHANGED <<scoreRequests, pending>>
         [] branch = "cached" ->
              /\ rawScores' = scoreCache[id]
              /\ scoresError' = NoError
              /\ scoresLoading' = FALSE
              /\ effectLoad' = 0
              /\ UNCHANGED <<scoreRequests, pending>>
         [] branch = "fetch" ->
              /\ Len(scoreRequests) < MaxScoreFetches
              /\ scoresLoading' = TRUE
              /\ scoresError' = NoError
              /\ rawScores' = rawScores
              /\ scoreRequests' = Append(scoreRequests, id)
              /\ pending' = pending \cup {Len(scoreRequests) + 1}
              /\ effectLoad' = Len(scoreRequests) + 1

\* selectIndustry(id) -> re-render -> the score effect runs again
SelectIndustry(id) ==
    /\ mounted
    /\ id # selectedIndustryId
    /\ selectedIndustryId' = id
    /\ RunScoreEffect(id, industriesLoading, industriesRef)
    /\ UNCHANGED nonIndustry
    /\ UNCHANGED <<mounted, stateFilter, industries, industriesRef, industriesLoading,
                   industriesError, catalogPending, catalogCancelled>>

\* filterByState(abbr): only the derived scores depend on it
FilterByState(abbr) ==
    /\ mounted
    /\ abbr # stateFilter
    /\ stateFilter' = abbr
    /\ UNCHANGED nonIndustry
    /\ UNCHANGED <<mounted, selectedIndustryId, industries, industriesRef,
                   industriesLoading, industriesError, catalogPending, catalogCancelled,
                   rawScores, scoresLoading, scoresError, scoreCache, scoreRequests,
                   pending, cancelledLoads, effectLoad, settled>>

\* loadIndustries: the response is ok and parsed
\* (variant: the score effect does not depend on industriesLoading)
CatalogLoaded_NoEffectRun(cat) ==
    /\ catalogPending
    /\ catalogPending' = FALSE
    /\ IF ~catalogCancelled
       THEN /\ industries' = cat
            /\ industriesRef' = cat
            /\ industriesLoading' = FALSE
            /\ UNCHANGED <<rawScores, scoresLoading, scoresError, scoreCache,
                           scoreRequests, pending, cancelledLoads, effectLoad, settled>>
       ELSE UNCHANGED <<industries, industriesRef, industriesLoading, rawScores,
                        scoresLoading, scoresError, scoreCache, scoreRequests,
                        pending, cancelledLoads, effectLoad, settled>>
    /\ UNCHANGED nonIndustry
    /\ UNCHANGED <<mounted, selectedIndustryId, stateFilter, industriesError,
                   catalogCancelled>>
CatalogLoaded(cat) ==
    /\ catalogPending
    /\ catalogPending' = FALSE
    /\ IF ~catalogCancelled
       THEN /\ industries' = cat
            /\ industriesRef' = cat
            /\ industriesLoading' = FALSE
            /\ RunScoreEffect(selectedIndustryId, FALSE, cat)
       ELSE UNCHANGED <<industries, industriesRef, industriesLoading, rawScores,
                        scoresLoading, scoresError, scoreCache, scoreRequests,
                        pending, cancelledLoads, effectLoad, settled>>
    /\ UNCHANGED nonIndustry
    /\ UNCHANGED <<mounted, selectedIndustryId, stateFilter, industriesError,
                   catalogCancelled>>

\* loadIndustries: the response is not ok, or the fetch rejects
CatalogFailed(msg) ==
    /\ catalogPending
    /\ catalogPending' = FALSE
    /\ IF ~catalogCancelled
       THEN /\ industriesError' = msg
            /\ industriesLoading' = FALSE
            /\ RunScoreEffect(selectedIndustryId, FALSE, industriesRef)
       ELSE UNCHANGED <<industriesError, industriesLoading, rawScores,
                        scoresLoading, scoresError, scoreCache, scoreRequests,
                        pending, cancelledLoads, effectLoad, settled>>
    /\ UNCHANGED nonIndustry
    /\ UNCHANGED <<mounted, selectedIndustryId, stateFilter, industries, industriesRef,
                   catalogCancelled>>

\* if (!cancelled) in the continuation of loadScores
\* (variant: the flag is not consulted)
Live_Unchecked(n) == TRUE
Live(n) == n \notin cancelledLoads

\* scoreCache.current.set(id, data)
\* (variant: the map is rebuilt with the one entry)
CacheSet_Clear(cache, id, data) == [x \in DOMAIN cache |-> IF x = id THEN data ELSE NoScores]
CacheSet(cache, id, data) == [cache EXCEPT ![id] = data]

\* loadScores: the response is ok and parsed
ScoreFetchSucceeds(n) ==
    /\ n \in pending
    /\ pending' = pending \ {n}
    /\ settled' = settled \cup {[n |-> n, ok |-> TRUE, live |-> Live(n)]}
    /\ IF Live(n)
       THEN /\ scoreCache' = CacheSet(scoreCache, scoreRequests[n], ScoreObject(scoreRequests[n], n))
            /\ rawScores' = ScoreObject(scoreRequests[n], n)
            /\ scoresLoading' = FALSE
            /\ scoresError' = scoresError
       ELSE UNCHANGED <<scoreCache, rawScores, scoresLoading, scoresError>>
    /\ UNCHANGED nonIndustry
    /\ UNCHANGED <<mounted, selectedIndustryId, stateFilter, industries, industriesRef,
                   industriesLoading, industriesError, catalogPending, catalogCancelled,
                   scoreRequests, cancelledLoads, effectLoad>>

\* loadScores: the response is not ok, or the fetch rejects
\* (variant: the failure is remembered in the cache under the id)
ScoreFetchFails_Poisons(n, msg) ==
    /\ n \in pending
    /\ pending' = pending \ {n}
    /\ settled' = settled \cup {[n |-> n, ok |-> FALSE, live |-> Live(n)]}
    /\ IF Live(n)
       THEN /\ scoresError' = msg
            /\ scoresLoading' = FALSE
            /\ scoreCache' = CacheSet(scoreCache, scoreRequests[n], ScoreObject(Null, n))
            /\ UNCHANGED rawScores
       ELSE UNCHANGED <<scoreCache, rawScores, scoresLoading, scoresError>>
    /\ UNCHANGED nonIndustry
    /\ UNCHANGED <<mounted, selectedIndustryId, stateFilter, industries, industriesRef,
                   industriesLoading, industriesError, catalogPending, catalogCancelled,
                   scoreRequests, cancelledLoads, effectLoad>>
ScoreFetchFails(n, msg) ==
    /\ n \in pending
    /\ pending' = pending \ {n}
    /\ settled' = settled \cup {[n |-> n, ok |-> FALSE, live |-> Live(n)]}
    /\ IF Live(n)
       THEN /\ scoresError' = msg
            /\ scoresLoading' = FALSE
            /\ UNCHANGED <<scoreCache, rawScores>>
       ELSE UNCHANGED <<scoreCache, rawScores, scoresLoading, scoresError>>
    /\ UNCHANGED nonIndustry
    /\ UNCHANGED <<mounted, selectedIndustryId, stateFilter, industries, industriesRef,
                   industriesLoading, industriesError, catalogPending, catalogCancelled,
                   scoreRequests, cancelledLoads, effectLoad>>

\* unmount: the cleanups of both effects run
Unmount ==
    /\ mounted
    /\ mounted' = FALSE
    /\ catalogCancelled' = TRUE
    /\ cancelledLoads' = Cleanup
    /\ effectLoad' = 0
    /\ UNCHANGED nonIndustry
    /\ UNCHANGED <<selectedIndustryId, stateFilter, industries, industriesRef,
                   industriesLoading, industriesError, catalogPending, rawScores,
                   scoresLoading, scoresError, scoreCache, scoreRequests, pending,
                   settled>>

NextIndustry ==
    \/ \E id \in {Null} \cup SelectableIds : SelectIndustry(id)
    \/ \E abbr \in {AllStates} \cup StateAbbrs : FilterByState(abbr)
    \/ \E cat \in Catalogs : CatalogLoaded(cat)
    \/ \E msg \in CatalogFailures : CatalogFailed(msg)
    \/ \E n \in pending : ScoreFetchSucceeds(n)
    \/ \E n \in pending, msg \in ScoreFailures : ScoreFetchFails(n, msg)
    \/ Unmount

\* ------------------------------------------------------------------------
\* useCountyData
\* ------------------------------------------------------------------------
DemoFailures == {<<"Failed to load demographics: ", "500">>, <<"Failed to fetch">>}

\* what the promise an async call returned has become
Unsettled == [tag |-> "pending", val |-> 0]
Resolved(v) == [tag |-> "value", val |-> v]
Rejected == [tag |-> "rejected", val |-> 0]

\* the parsed demographics object of fetch p has identity p; 0 is null
InitialDemoState == [data |-> 0, loading |-> FALSE, error |-> NoError]

InitCounty ==
    /\ demoState = InitialDemoState
    /\ stateRef = InitialDemoState
    /\ fetchedRef = FALSE
    /\ promiseRef = 0
    /\ promises = <<>>
    /\ calls = <<>>
    /\ selectedCountyFips = Null

\* what a promise handed out by `return promiseRef.current` settles to
PromiseOutcome(p) ==
    CASE promises[p] = "pending" -> Unsettled
      [] promises[p] = "fulfilled" -> Resolved(p)
      [] promises[p] = "rejected" -> Rejected

\* which return of ensureLoaded is taken
\* (variant: the in-flight promise is not consulted)
EnsurePath_NoJoin ==
    IF stateRef.data # 0 THEN "loaded"
    ELSE IF fetchedRef /\ stateRef.error # NoError THEN "failed"
    ELSE "fetch"
EnsurePath ==
    IF stateRef.data # 0 THEN "loaded"
    ELSE IF promiseRef # 0 THEN "join"
    ELSE IF fetchedRef /\ stateRef.error # NoError THEN "failed"
    ELSE "fetch"

\* ensureLoaded(), up to its first await
EnsureLoaded ==
    /\ Len(calls) < MaxCalls
    /\ LET path == EnsurePath IN
       CASE path = "loaded" ->
              /\ calls' = Append(calls, [how |-> "loaded", p |-> 0, res |-> Resolved(stateRef.data)])
              /\ UNCHANGED <<demoState, fetchedRef, promiseRef, promises>>
         [] path = "join" ->
              /\ calls' = Append(calls, [how |-> "join", p |-> promiseRef,
                                         res |-> PromiseOutcome(promiseRef)])
              /\ UNCHANGED <<demoState, fetchedRef, promiseRef, promises>>
         [] path = "failed" ->
              /\ calls' = Append(calls, [how |-> "failed", p |-> 0, res |-> Resolved(0)])
              /\ UNCHANGED <<demoState, fetchedRef, promiseRef, promises>>
         [] path = "fetch" ->
              /\ Len(promises) < MaxDemoFetches
              /\ fetchedRef' = TRUE
              /\ demoState' = [demoState EXCEPT !.loading = TRUE, !.error = NoError]
              /\ promises' = Append(promises, "pending")
              /\ promiseRef' = Len(promises) + 1
              /\ calls' = Append(calls, [how |-> "own", p |-> Len(promises) + 1,
                                         res |-> Unsettled])
    /\ UNCHANGED <<stateRef, nonCounty>>

\* the callers of fetch p get their results: the call that issued the fetch
\* returns `own`, a call that was handed promiseRef.current gets `joined`
SettleCalls(p, own, joined) ==
    [i \in 1..Len(calls) |->
        IF calls[i].p = p /\ calls[i].res = Unsettled
        THEN [calls[i] EXCEPT !.res = IF calls[i].how = "own" THEN own ELSE joined]
        ELSE calls[i]]

\* what the call that issued the fetch returns: `return data` / `return null`
OwnerReturn(ok, data) == IF ok THEN Resolved(data) ELSE Resolved(0)

\* the fetch promise fulfils; the try block of its ensureLoaded call continues
DemoFetchSucceeds(p) ==
    /\ p \in 1..Len(promises)
    /\ promises[p] = "pending"
    /\ promises' = [promises EXCEPT ![p] = "fulfilled"]
    /\ demoState' = [data |-> p, loading |-> FALSE, error |-> NoError]
    /\ calls' = SettleCalls(p, OwnerReturn(TRUE, p), Resolved(p))
    /\ UNCHANGED <<stateRef, fetchedRef, promiseRef, dvars, nonCounty>>

\* the fetch promise rejects; the catch block of its ensureLoaded call runs
DemoFetchFails(p, msg) ==
    /\ p \in 1..Len(promises)
    /\ promises[p] = "pending"
    /\ promises' = [promises EXCEPT ![p] = "rejected"]
    /\ demoState' = [data |-> 0, loading |-> FALSE, error |-> msg]
    /\ promiseRef' = 0
    /\ calls' = SettleCalls(p, OwnerReturn(FALSE, 0), Rejected)
    /\ UNCHANGED <<stateRef, fetchedRef, dvars, nonCounty>>

\* retry()
\* (variant: fetchedRef is left set)
Retry_KeepsFetched ==
    /\ promiseRef' = 0
    /\ demoState' = InitialDemoState
    /\ UNCHANGED <<fetchedRef, stateRef, promises, calls, dvars, nonCounty>>
Retry ==
    /\ fetchedRef' = FALSE
    /\ promiseRef' = 0
    /\ demoState' = InitialDemoState
    /\ UNCHANGED <<stateRef, promises, calls, dvars, nonCounty>>

\* the component re-renders: stateRef.current = state
Render ==
    /\ stateRef # demoState
    /\ stateRef' = demoState
    /\ UNCHANGED <<demoState, fetchedRef, promiseRef, promises, calls, dvars, nonCounty>>

NextCountyLoad ==
    \/ EnsureLoaded /\ UNCHANGED dvars
    \/ \E p \in 1..MaxDemoFetches : DemoFetchSucceeds(p)
    \/ \E p \in 1..MaxDemoFetches, msg \in DemoFailures : DemoFetchFails(p, msg)
    \/ Render

NextCounty ==
    \/ NextCountyLoad
    \/ Retry

\* retry() called while the failure of the last load stands
RetryAfterFailure ==
    /\ demoState.error # NoError
    /\ Retry

NextCountyRetry ==
    \/ NextCountyLoad
    \/ RetryAfterFailure

\* ------------------------------------------------------------------------
\* App with DetailPanel: the selected county, the panel's effect, its button
\* ------------------------------------------------------------------------
CountyFips == {<<"1","2","0","1","1">>, <<"4","8","2","0","1">>}

\* selectCounty(fips): App renders, then the effect of DetailPanel runs
\* (its only dependency is countyFips) and calls ensureLoaded for a county
SelectCounty(fips) ==
    /\ fips # selectedCountyFips
    /\ stateRef = demoState
    /\ selectedCountyFips' = fips
    /\ IF fips # Null
       THEN EnsureLoaded
       ELSE UNCHANGED <<cvars, nonCounty>>

\* the Retry button, rendered while a county is selected and the error of
\* the last render is set: onClick={onRetry}, which is retry() of the hook
ClickRetry ==
    /\ selectedCountyFips # Null
    /\ stateRef.error # NoError
    /\ Retry

NextDetail ==
    \/ \E fips \in {Null} \cup CountyFips : SelectCounty(fips)
    \/ ClickRetry
    \/ \E p \in 1..MaxDemoFetches : DemoFetchSucceeds(p)
    \/ \E p \in 1..MaxDemoFetches, msg \in DemoFailures : DemoFetchFails(p, msg)
    \/ Render

\* ------------------------------------------------------------------------
\* MapView, ChoroplethLayer and the rendering engine they drive
\* ------------------------------------------------------------------------
Themes == {"dark", "light", "system"}

LIGHT_STYLE == "positron-gl-style"
DARK_STYLE == "dark-matter-gl-style"
\* map.getStyle() is undefined while no style is loaded: currentName is ''
NoStyle == ""

\* resolvedTheme(theme), with matchMedia('(prefers-color-scheme: dark)').matches
resolvedTheme(t, os) ==
    IF t = "dark" THEN "dark"
    ELSE IF t = "light" THEN "light"
    ELSE IF os THEN "dark" ELSE "light"

StyleFor(resolved) == IF resolved = "dark" THEN DARK_STYLE ELSE LIGHT_STYLE

\* currentName.toLowerCase().includes('dark')
IsDarkStyle(style) == style = DARK_STYLE

\* `isDark === wantDark` is false: the style-switch effect goes on to swap
\* (variant: the effect always swaps)
WantsSwap_Always(style, t, os) == TRUE
WantsSwap(style, t, os) == IsDarkStyle(style) # (resolvedTheme(t, os) = "dark")

\* what getStyle() reports right after map.setStyle(url): the engine either
\* keeps the loaded style until the new one has arrived, or drops it at once
SetStyleOutcomes(style) == IF style = NoStyle THEN {NoStyle} ELSE {style, NoStyle}

\* features of a parsed geometry payload
GoodFeature == [type |-> "Feature", geometry |-> "object", GEOID |-> "string"]
NoKeyFeature == [type |-> "Feature", geometry |-> "object", GEOID |-> "undefined"]
NumericKeyFeature == [type |-> "Feature", geometry |-> "object", GEOID |-> "number"]
NullGeometryFeature == [type |-> "Feature", geometry |-> "null", GEOID |-> "string"]
UntypedFeature == [type |-> "undefined", geometry |-> "object", GEOID |-> "string"]

Collection(fs) == [kind |-> "object", type |-> "FeatureCollection", isArray |-> TRUE, features |-> fs]
\* JSON null; also the value of geojsonRef.current before any load
NoGeo == [kind |-> "null", type |-> "", isArray |-> FALSE, features |-> <<>>]

\* payloads the geometry response may parse to
BadPayloads ==
    { NoGeo,
      [kind |-> "string", type |-> "", isArray |-> FALSE, features |-> <<>>],
      [kind |-> "object", type |-> "Feature", isArray |-> TRUE, features |-> <<GoodFeature>>],
      [kind |-> "object", type |-> "FeatureCollection", isArray |-> FALSE, features |-> <<>>],
      Collection(<<NoKeyFeature, GoodFeature>>),
      Collection(<<NumericKeyFeature>>),
      Collection(<<NullGeometryFeature, GoodFeature>>),
      Collection(<<UntypedFeature>>) }
PassingPayloads ==
    { Collection(<<>>),
      Collection(<<GoodFeature, GoodFeature>>),
      Collection(<<GoodFeature, NoKeyFeature>>) }
Payloads == BadPayloads \cup PassingPayloads

\* validateGeoJSON(data)
\* (variant: the features are not looked at)
validateGeoJSON_NoSpotCheck(data) ==
    /\ data.kind = "object"
    /\ data.type = "FeatureCollection"
    /\ data.isArray
validateGeoJSON(data) ==
    IF data.kind # "object" THEN FALSE
    ELSE IF data.type # "FeatureCollection" THEN FALSE
    ELSE IF ~data.isArray THEN FALSE
    ELSE IF Len(data.features) > 0
         THEN LET first == data.features[1] IN
              IF first.type # "Feature" THEN FALSE
              ELSE IF first.geometry # "object" THEN FALSE
              ELSE IF first.GEOID # "string" THEN FALSE
              ELSE TRUE
         ELSE TRUE

\* the scores prop: null, or the entries of the object
ScoresNull == [isNull |-> TRUE, entries |-> <<>>]
ScoresOf(es) == [isNull |-> FALSE, entries |-> es]
\* one CountyScore, the fields the map reads
CountyScore(fips, score, count, perBiz) ==
    [fips |-> fips, score |-> score, establishmentCount |-> count,
     populationPerBiz |-> perBiz]
ScoresProps ==
    { ScoresNull,
      ScoresOf(<<>>),
      ScoresOf(<<CountyScore(<<"1","2","0","1","1">>, 80, 10, 200)>>) }
MetricKeys == {"score", "establishmentCount"}
\* type MetricKey
AllMetricKeys == MetricKeys \cup {"populationPerBiz"}

NO_DATA_COLOR == "#e5e7eb"
choroplethScale ==
    << [value |-> 0, color |-> "#e5e7eb"],
       [value |-> 50, color |-> "#a5b4fc"],
       [value |-> 100, color |-> "#3730a3"] >>

\* a paint value: a plain colour, or the interpolate expression with its
\* match pairs, the match default and the colour stops
NoPaint == [color |-> "", match |-> <<>>, fallback |-> 0, stops |-> <<>>]
FlatPaint(c) == [color |-> c, match |-> <<>>, fallback |-> 0, stops |-> <<>>]

\* numbers the expression carries are kept as exact fractions num/den
Frac(n, d) == [num |-> n, den |-> d]

\* e[metric]
MetricValue(e, m) ==
    IF m = "score" THEN e.score
    ELSE IF m = "establishmentCount" THEN e.establishmentCount
    ELSE e.populationPerBiz

\* min and max as buildFillColorExpression leaves them before the pairs are
\* built, for a non-empty list of entries
\* (variant: max is left equal to min)
MetricRange_NoGuard(es, m) ==
    IF m = "score" THEN [min |-> 0, max |-> 100]
    ELSE LET values == {MetricValue(es[i], m) : i \in 1..Len(es)}
             lo == CHOOSE v \in values : \A w \in values : v <= w
             hi == CHOOSE v \in values : \A w \in values : v >= w
         IN  [min |-> lo, max |-> hi]
MetricRange(es, m) ==
    IF m = "score" THEN [min |-> 0, max |-> 100]
    ELSE LET values == {MetricValue(es[i], m) : i \in 1..Len(es)}
             lo == CHOOSE v \in values : \A w \in values : v <= w
             hi == CHOOSE v \in values : \A w \in values : v >= w
         IN  [min |-> lo, max |-> IF hi = lo THEN lo + 1 ELSE hi]

\* metric === 'score' ? raw : ((raw - min) / (max - min)) * 100
\* (variant: the quotient is not scaled to 0..100)
normalised_Unscaled(raw, range, m) ==
    IF m = "score" THEN Frac(raw, 1)
    ELSE Frac(raw - range.min, range.max - range.min)
normalised(raw, range, m) ==
    IF m = "score" THEN Frac(raw, 1)
    ELSE Frac((raw - range.min) * 100, range.max - range.min)

\* fipsPairs: one [fips, normalised] pair per entry, in the order of
\* Object.entries(scores)
fipsPairs(es, m) ==
    [i \in 1..Len(es) |->
        [fips |-> es[i].fips,
         value |-> normalised(MetricValue(es[i], m), MetricRange(es, m), m)]]

\* buildFillColorExpression(scores, metric)
buildFillColorExpression(s, m) ==
    [color |-> "interpolate", match |-> fipsPairs(s.entries, m), fallback |-> 0,
     stops |-> choroplethScale]

\* the value the fill-colour effect hands to setPaintProperty
FillColor(s, m) ==
    IF s.isNull \/ Len(s.entries) = 0
    THEN FlatPaint(NO_DATA_COLOR)
    ELSE buildFillColorExpression(s, m)


\* the source 'counties' as the engine holds it: its data, and which call of
\* addSourceAndLayers added it ("cache": line 125, "fetch": line 147)
Source(data, by) == [data |-> data, by |-> by]
NoSource == Source(NoGeo, "none")

\* map.addSource / map.addLayer throw while the style is not done loading
CanAddSource(style, has) == style # NoStyle /\ ~has

\* which way the geometry effect of ChoroplethLayer goes when it runs with
\* geojsonStatus 'loading'; a throw of addSourceAndLayers on the cached
\* geometry falls through to the fetch
\* (variant: the cached geometry is not used)
GeoEffectPath_NoCache(has, style, cache) ==
    IF has THEN "exists" ELSE "fetch"
GeoEffectPath(has, style, cache) ==
    IF has THEN "exists"
    ELSE IF cache # NoGeo /\ CanAddSource(style, has) THEN "cached"
    ELSE "fetch"

\* `cancelled` of the geometry effect after its cleanup has run
CancelGeoLoad == geoCancelled \cup (IF geoEffectLoad = 0 THEN {} ELSE {geoEffectLoad})

\* if (cancelled || !map) return, and if (!cancelled) in the catch
\* (variant: the flag is not consulted)
GeoLive_Unchecked(n) == TRUE
GeoLive(n) == n \notin geoCancelled

\* log entry of a response: handled by a live closure, dropped by a closure
\* cancelled in a restyle or retry, or dropped after the teardown
ResponseStatus(n) ==
    IF GeoLive(n) THEN "handled"
    ELSE IF engine = "removed" THEN "after-teardown"
    ELSE "stale"

\* log entry of a retry: the way the geometry effect went, and the fetch it
\* issued (0 if it issued none)
RetryEntry(path, n) == [path |-> path, request |-> IF path = "fetch" THEN n ELSE 0]
NoRetry == RetryEntry("none", 0)

InitMap ==
    /\ theme \in Themes
    /\ osDark \in BOOLEAN
    /\ mapScores = ScoresNull
    /\ metric = "score"
    /\ engine = "live"
    /\ loadFired = FALSE
    /\ engineStyle = NoStyle
    /\ requestedStyle = StyleFor(resolvedTheme(theme, osDark))
    /\ stylePending = TRUE
    /\ hasSource = FALSE
    /\ sourceData = NoSource
    /\ fillColor = NoPaint
    /\ clickListeners = 0
    /\ removals = 0
    /\ mapReady = FALSE
    /\ geojsonStatus = "loading"
    /\ geojsonRef = NoGeo
    \* the style-switch effect has run once, on mount
    /\ styleListener = WantsSwap(NoStyle, theme, osDark)
    /\ timerArmed = WantsSwap(NoStyle, theme, osDark)
    /\ swapSettled = FALSE
    /\ retryLog = NoRetry
    /\ clickLog = <<>>
    /\ loadedRef = FALSE
    /\ geoRequests = <<>>
    /\ geoCancelled = {}
    /\ geoEffectLoad = 0

\* the geometry, click and (on mount only) fill-colour effects of
\* ChoroplethLayer, run against an engine that holds (has, src, color) under
\* the style `style`
LayerEffects(has, src, color, style, onMount) ==
    /\ geoCancelled' = CancelGeoLoad
    /\ LET path == GeoEffectPath(has, style, geojsonRef) IN
       CASE path = "exists" ->
              /\ loadedRef' = TRUE
              /\ geojsonStatus' = "loaded"
              /\ hasSource' = TRUE
              /\ sourceData' = src
              /\ fillColor' = IF onMount THEN FillColor(mapScores, metric) ELSE color
              /\ clickListeners' = 1
              /\ geoEffectLoad' = 0
              /\ UNCHANGED geoRequests
         [] path = "cached" ->
              /\ loadedRef' = TRUE
              /\ geojsonStatus' = "loaded"
              /\ hasSource' = TRUE
              /\ sourceData' = Source(geojsonRef, "cache")
              /\ fillColor' = IF onMount THEN FillColor(mapScores, metric)
                              ELSE FlatPaint(NO_DATA_COLOR)
              /\ clickListeners' = 1
              /\ geoEffectLoad' = 0
              /\ UNCHANGED geoRequests
         [] path = "fetch" ->
              /\ Len(geoRequests) < MaxGeoFetches
              /\ geoRequests' = Append(geoRequests, "pending")
              /\ geoEffectLoad' = Len(geoRequests) + 1
              /\ loadedRef' = (loadedRef /\ ~onMount)
              /\ geojsonStatus' = "loading"
              /\ hasSource' = has
              /\ sourceData' = src
              /\ fillColor' = color
              /\ clickListeners' = IF loadedRef /\ ~onMount THEN 1 ELSE 0

\* setMapReady(true) with the engine holding (has, src, color) under `style`:
\* nothing re-renders if the map is ready already; otherwise ChoroplethLayer
\* mounts and its effects run
SetMapReadyTrue(has, src, color, style) ==
    IF mapReady
    THEN /\ mapReady' = TRUE
         /\ hasSource' = has
         /\ sourceData' = src
         /\ fillColor' = color
         /\ UNCHANGED <<geojsonStatus, loadedRef, clickListeners, geoRequests,
                        geoCancelled, geoEffectLoad>>
    ELSE /\ mapReady' = TRUE
         /\ LayerEffects(has, src, color, style, TRUE)

\* ChoroplethLayer is unmounted, or was not mounted: its cleanups have run
\* (variant: the click effect has no cleanup)
LayerUnmounted_KeepsListener ==
    /\ loadedRef' = FALSE
    /\ geoCancelled' = CancelGeoLoad
    /\ geoEffectLoad' = 0
    /\ clickListeners' = clickListeners
    /\ UNCHANGED mlog
LayerUnmounted ==
    /\ loadedRef' = FALSE
    /\ geoCancelled' = CancelGeoLoad
    /\ geoEffectLoad' = 0
    /\ clickListeners' = 0
    /\ retryLog' = NoRetry
    /\ clickLog' = <<>>

\* setTheme(t): the style-switch effect is cleaned up and runs again;
\* `after` is what the engine reports as its style once setStyle has returned
ThemeChange(t, after) ==
    /\ engine = "live"
    /\ t # theme
    /\ theme' = t
    /\ IF WantsSwap(engineStyle, t, osDark)
       THEN /\ after \in SetStyleOutcomes(engineStyle)
            /\ mapReady' = FALSE
            /\ geojsonStatus' = "loading"
            /\ requestedStyle' = StyleFor(resolvedTheme(t, osDark))
            /\ stylePending' = TRUE
            /\ engineStyle' = after
            /\ hasSource' = (hasSource /\ after # NoStyle)
            /\ sourceData' = IF after # NoStyle THEN sourceData ELSE NoSource
            /\ fillColor' = IF after # NoStyle THEN fillColor ELSE NoPaint
            /\ styleListener' = TRUE
            /\ timerArmed' = TRUE
            /\ swapSettled' = FALSE
            /\ LayerUnmounted
       ELSE /\ after = engineStyle
            /\ styleListener' = FALSE
            /\ timerArmed' = FALSE
            /\ UNCHANGED <<swapSettled, mapReady, geojsonStatus, requestedStyle,
                           stylePending, engineStyle, hasSource, sourceData, fillColor,
                           loadedRef, geoCancelled, geoEffectLoad, clickListeners,
                           mlog>>
    /\ UNCHANGED <<osDark, mapScores, metric, engine, loadFired, removals, geojsonRef,
                   geoRequests, nonMap>>

\* the engine finishes loading the requested style; the sources and layers
\* added under the previous style are gone; `fires` says whether it emits
\* 'style.load', which runs onStyleLoad if the listener is registered
EngineStyleDone(fires) ==
    /\ engine = "live"
    /\ stylePending
    /\ stylePending' = FALSE
    /\ engineStyle' = requestedStyle
    /\ styleListener' = (styleListener /\ ~fires)
    /\ IF fires /\ styleListener /\ ~swapSettled
       THEN /\ swapSettled' = TRUE
            /\ SetMapReadyTrue(FALSE, NoSource, NoPaint, requestedStyle)
       ELSE /\ hasSource' = FALSE
            /\ sourceData' = NoSource
            /\ fillColor' = NoPaint
            /\ UNCHANGED <<swapSettled, mapReady, geojsonStatus, loadedRef, clickListeners,
                           geoRequests, geoCancelled, geoEffectLoad>>
    /\ UNCHANGED <<theme, osDark, mapScores, metric, engine, loadFired, removals,
                   requestedStyle, timerArmed, geojsonRef, mlog, nonMap>>

\* the engine emits 'load': onLoad
EngineLoad ==
    /\ engine = "live"
    /\ ~loadFired
    /\ engineStyle # NoStyle
    /\ loadFired' = TRUE
    /\ SetMapReadyTrue(hasSource, sourceData, fillColor, engineStyle)
    /\ UNCHANGED <<theme, osDark, mapScores, metric, engine, removals, engineStyle,
                   requestedStyle, stylePending, styleListener, timerArmed, swapSettled,
                   geojsonRef, mlog, nonMap>>

\* the fallback timer of the style-switch effect expires
TimerFires ==
    /\ timerArmed
    /\ timerArmed' = FALSE
    /\ IF ~swapSettled
       THEN /\ swapSettled' = TRUE
            /\ SetMapReadyTrue(hasSource, sourceData, fillColor, engineStyle)
       ELSE UNCHANGED <<swapSettled, mapReady, geojsonStatus, loadedRef, hasSource,
                        sourceData, fillColor, clickListeners, geoRequests,
                        geoCancelled, geoEffectLoad>>
    /\ UNCHANGED <<theme, osDark, mapScores, metric, engine, loadFired, removals,
                   engineStyle, requestedStyle, stylePending, styleListener,
                   geojsonRef, mlog, nonMap>>

\* loadGeojson: the response is ok and parses to `data`
GeoFetchSucceeds(n, data) ==
    /\ n \in 1..Len(geoRequests)
    /\ geoRequests[n] = "pending"
    /\ geoRequests' = [geoRequests EXCEPT ![n] = ResponseStatus(n)]
    /\ IF ~GeoLive(n)
       THEN UNCHANGED <<geojsonStatus, geojsonRef, loadedRef, hasSource, sourceData,
                        fillColor, clickListeners, geoEffectLoad>>
       ELSE /\ geoEffectLoad' = 0
            /\ IF validateGeoJSON(data) /\ CanAddSource(engineStyle, hasSource)
               THEN /\ hasSource' = TRUE
                    /\ sourceData' = Source(data, "fetch")
                    /\ fillColor' = FlatPaint(NO_DATA_COLOR)
                    /\ loadedRef' = TRUE
                    /\ geojsonRef' = data
                    /\ geojsonStatus' = "loaded"
                    /\ clickListeners' = 1
               ELSE /\ geojsonStatus' = "error"
                    /\ UNCHANGED <<geojsonRef, loadedRef, hasSource, sourceData,
                                   fillColor, clickListeners>>
    /\ UNCHANGED <<theme, osDark, mapScores, metric, engine, loadFired, removals,
                   engineStyle, requestedStyle, stylePending, styleListener, timerArmed,
                   swapSettled, mapReady, geoCancelled, mlog, nonMap>>

\* loadGeojson: the response is not ok, or the fetch rejects
GeoFetchFails(n) ==
    /\ n \in 1..Len(geoRequests)
    /\ geoRequests[n] = "pending"
    /\ geoRequests' = [geoRequests EXCEPT ![n] = ResponseStatus(n)]
    /\ IF ~GeoLive(n)
       THEN UNCHANGED <<geojsonStatus, geoEffectLoad>>
       ELSE /\ geoEffectLoad' = 0
            /\ geojsonStatus' = "error"
    /\ UNCHANGED <<theme, osDark, mapScores, metric, engine, loadFired, removals,
                   engineStyle, requestedStyle, stylePending, styleListener, timerArmed,
                   swapSettled, mapReady, geojsonRef, loadedRef, hasSource, sourceData,
                   fillColor, clickListeners, geoCancelled, mlog, nonMap>>

\* the Retry button of the error overlay: retryLoadGeojson, then the geometry
\* and click effects of the mounted ChoroplethLayer run again
\* (variant: the status is set and no effect runs)
RetryLoadGeojson_NoEffect ==
    /\ engine = "live"
    /\ geojsonStatus = "error"
    /\ geojsonStatus' = "loading"
    /\ retryLog' = RetryEntry("unmounted", 0)
    /\ UNCHANGED <<loadedRef, hasSource, sourceData, fillColor, clickListeners,
                   geoRequests, geoCancelled, geoEffectLoad>>
    /\ UNCHANGED <<theme, osDark, mapScores, metric, engine, loadFired, removals,
                   engineStyle, requestedStyle, stylePending, styleListener, timerArmed,
                   swapSettled, mapReady, geojsonRef, clickLog, nonMap>>
RetryLoadGeojson ==
    /\ engine = "live"
    /\ geojsonStatus = "error"
    /\ IF mapReady
       THEN /\ LayerEffects(hasSource, sourceData, fillColor, engineStyle, FALSE)
            /\ retryLog' = RetryEntry(GeoEffectPath(hasSource, engineStyle, geojsonRef),
                                      Len(geoRequests) + 1)
       ELSE /\ geojsonStatus' = "loading"
            /\ retryLog' = RetryEntry("unmounted", 0)
            /\ UNCHANGED <<loadedRef, hasSource, sourceData, fillColor, clickListeners,
                           geoRequests, geoCancelled, geoEffectLoad>>
    /\ UNCHANGED <<theme, osDark, mapScores, metric, engine, loadFired, removals,
                   engineStyle, requestedStyle, stylePending, styleListener, timerArmed,
                   swapSettled, mapReady, geojsonRef, clickLog, nonMap>>

\* the scores or metric prop changes: the fill-colour effect of a mounted
\* ChoroplethLayer runs
SetFillProps(s, m) ==
    /\ engine = "live"
    /\ <<s, m>> # <<mapScores, metric>>
    /\ mapScores' = s
    /\ metric' = m
    /\ fillColor' = IF mapReady /\ loadedRef /\ hasSource
                    THEN FillColor(s, m)
                    ELSE fillColor
    /\ UNCHANGED <<theme, osDark, engine, loadFired, removals, engineStyle,
                   requestedStyle, stylePending, hasSource, sourceData, clickListeners,
                   mapReady, geojsonStatus, geojsonRef, styleListener, timerArmed,
                   swapSettled, loadedRef, geoRequests, geoCancelled, geoEffectLoad,
                   mlog, nonMap>>

\* MapView unmounts: the cleanups of its effects and of its children run
\* (variant: the fallback timer is not cleared)
TeardownMap_KeepsTimer ==
    /\ engine = "live"
    /\ engine' = "removed"
    /\ removals' = removals + 1
    /\ mapReady' = FALSE
    /\ geojsonStatus' = "loading"
    /\ styleListener' = FALSE
    /\ hasSource' = FALSE
    /\ sourceData' = NoSource
    /\ fillColor' = NoPaint
    /\ LayerUnmounted
    /\ UNCHANGED <<theme, osDark, mapScores, metric, loadFired, engineStyle,
                   requestedStyle, stylePending, swapSettled, timerArmed, geojsonRef, geoRequests,
                   nonMap>>
TeardownMap ==
    /\ engine = "live"
    /\ engine' = "removed"
    /\ removals' = removals + 1
    /\ mapReady' = FALSE
    /\ geojsonStatus' = "loading"
    /\ styleListener' = FALSE
    /\ timerArmed' = FALSE
    /\ hasSource' = FALSE
    /\ sourceData' = NoSource
    /\ fillColor' = NoPaint
    /\ LayerUnmounted
    /\ UNCHANGED <<theme, osDark, mapScores, metric, loadFired, engineStyle,
                   requestedStyle, stylePending, swapSettled, geojsonRef, geoRequests,
                   nonMap>>

\* e.features of a click on county-fill: the properties of the features under
\* the pointer, topmost first; a feature may lack the GEOID property
Undefined == <<"undefined">>
ClickFeature(key) == [GEOID |-> key]
ClickKeys == CountyFips \cup {Undefined}
ClickEvents ==
    {<<>>} \cup {<<ClickFeature(a)>> : a \in ClickKeys}
           \cup {<<ClickFeature(a), ClickFeature(b)>> : a \in ClickKeys, b \in ClickKeys}

\* the argument handleClick passes to onCountyClick: fips ?? null
\* (variant: the last feature is taken)
handleClick_LastFeature(features) ==
    LET fips == IF Len(features) = 0 THEN Undefined ELSE features[Len(features)].GEOID
    IN  IF fips = Undefined THEN Null ELSE fips
handleClick(features) ==
    LET fips == IF Len(features) = 0 THEN Undefined ELSE features[1].GEOID
    IN  IF fips = Undefined THEN Null ELSE fips

\* the engine dispatches a click on the fill layer to every handler
\* registered for it
MapClick(features) ==
    /\ engine = "live"
    /\ hasSource
    /\ clickLog' = [i \in 1..clickListeners |-> handleClick(features)]
    /\ UNCHANGED <<theme, osDark, mapScores, metric, mapReady, geojsonStatus, geojsonRef,
                   styleListener, timerArmed, swapSettled, loadedRef, geoRequests,
                   geoCancelled, geoEffectLoad, engine, removals, loadFired,
                   engineStyle, requestedStyle, stylePending, hasSource, sourceData,
                   fillColor, clickListeners, retryLog, nonMap>>

\* ------------------------------------------------------------------------
\* Calls of the pure functions
\* ------------------------------------------------------------------------
DigitChars == <<"1", "2", "3", "4", "5", "6", "7", "8", "9">>

\* score objects handed to buildFillColorExpression: up to MaxFillEntries
\* counties of one state, in the order of Object.entries
FillFips(i) == <<"4", "8", "0", "0", DigitChars[i]>>
FillValues == {10, 60, 110}
FillScoreSets ==
    UNION { { ScoresOf([i \in 1..n |-> CountyScore(FillFips(i), f[i][1], f[i][2], 200)]) :
                f \in [1..n -> FillValues \X FillValues] } :
            n \in 0..MaxFillEntries }

NoFillCall == [scores |-> ScoresNull, metric |-> "", result |-> NoPaint]

\* ---- the memos of useIndustryData ----

\* one CountyScore, the fields the memos read
ScoreEntry(fips, st, score) == [fips |-> fips, state |-> st, score |-> score]

\* counties a score file may hold, with the state each lies in
MemoFips ==
    << <<"0","6","0","0","1">>, <<"0","6","0","3","7">>, <<"1","2","0","1","1">>,
       <<"4","8","2","0","1">>, <<"4","8","1","1","3">> >>
StateOfFips(fips) ==
    IF fips[1] = "0" THEN "CA" ELSE IF fips[1] = "1" THEN "FL" ELSE "TX"
MemoScoreValues == {55, 82}
MemoFilters == {AllStates, "CA", "FL"} \cup StateAbbrs

Digits10 == <<"0", "1", "2", "3", "4", "5", "6", "7", "8", "9">>
DigitValue(c) == CHOOSE d \in 0..9 : Digits10[d + 1] = c

\* a < b for two keys of five digits
RECURSIVE FipsLess(_, _)
FipsLess(a, b) ==
    IF a = <<>> \/ b = <<>> THEN FALSE
    ELSE IF Head(a) # Head(b) THEN DigitValue(Head(a)) < DigitValue(Head(b))
    ELSE FipsLess(Tail(a), Tail(b))

\* a property key that is a canonical array index ("12011", not "06037"):
\* such keys are enumerated first, in ascending numeric order
IsArrayIndex(fips) == fips[1] # "0"

RECURSIVE SortByKey(_)
SortByKey(es) ==
    IF es = <<>> THEN <<>>
    ELSE LET x == Head(es)
             rest == SortByKey(Tail(es))
             k == Cardinality({i \in 1..Len(rest) : FipsLess(rest[i].fips, x.fips)})
         IN  SubSeq(rest, 1, k) \o <<x>> \o SubSeq(rest, k + 1, Len(rest))

\* Object.entries / Object.values of an object whose properties were inserted
\* in the order `es`
ObjectOrder(es) ==
    LET IsIndex(e) == IsArrayIndex(e.fips)
        IsName(e) == ~IsArrayIndex(e.fips)
    IN  SortByKey(SelectSeq(es, IsIndex)) \o SelectSeq(es, IsName)

\* score files: every order of every choice of up to MaxMemoEntries counties
MemoPool == {MemoFips[i] : i \in 1..MaxMemoEntries}
MemoScoreSets ==
    {ScoresNull} \cup
    { ScoresOf([i \in 1..n |-> ScoreEntry(q[i], StateOfFips(q[i]), v[i])]) :
        n \in 0..MaxMemoEntries,
        q \in {p \in [1..MaxMemoEntries -> MemoPool] :
                 \A i \in 1..MaxMemoEntries, j \in 1..MaxMemoEntries :
                     i # j => p[i] # p[j]},
        v \in [1..MaxMemoEntries -> MemoScoreValues] }

\* score files with more counties than the list shows: "48001" .. "48012",
\* with equal, rising or falling scores
BigFips(k) == <<"4", "8", "0", Digits10[(k \div 10) + 1], Digits10[(k % 10) + 1]>>
BigScoreSets ==
    { ScoresOf([k \in 1..12 |-> ScoreEntry(BigFips(k), "TX", 55)]),
      ScoresOf([k \in 1..12 |-> ScoreEntry(BigFips(k), "TX", 50 + k)]),
      ScoresOf([k \in 1..12 |-> ScoreEntry(BigFips(13 - k), "TX", 50 + k)]),
      ScoresOf([k \in 1..11 |-> ScoreEntry(BigFips(k), "TX", 70 - (k % 3))]) }

\* the memo `scores`: rawScores filtered by state
\* (variant: the filter is ignored)
filterScores_Unfiltered(raw, filter) ==
    IF raw.isNull THEN ScoresNull ELSE raw
filterScores(raw, filter) ==
    IF raw.isNull THEN ScoresNull
    ELSE IF filter = AllStates THEN raw
    ELSE LET InState(e) == e.state = filter
         IN  ScoresOf(SelectSeq(ObjectOrder(raw.entries), InState))

\* Array.prototype.sort((a, b) => b.score - a.score): stable, so entries of
\* equal score keep their order
RECURSIVE SortByScore(_)
SortByScore(es) ==
    IF es = <<>> THEN <<>>
    ELSE LET x == Head(es)
             rest == SortByScore(Tail(es))
             k == Cardinality({i \in 1..Len(rest) : rest[i].score > x.score})
         IN  SubSeq(rest, 1, k) \o <<x>> \o SubSeq(rest, k + 1, Len(rest))

TopCount == 10

\* the memo `topCounties`
topCounties(scores) ==
    IF scores.isNull THEN <<>>
    ELSE LET sorted == SortByScore(ObjectOrder(scores.entries))
         IN  SubSeq(sorted, 1, IF Len(sorted) < TopCount THEN Len(sorted) ELSE TopCount)

NoMemoCall ==
    [called |-> FALSE, raw |-> ScoresNull, filter |-> AllStates, scores |-> ScoresNull,
     top |-> <<>>]

\* ---- the fit-bounds effect of MapView ----

\* stateList: abbreviation and region code of some states
stateList ==
    << [abbreviation |-> "CA", fips |-> "06"],
       [abbreviation |-> "DC", fips |-> "11"],
       [abbreviation |-> "FL", fips |-> "12"],
       [abbreviation |-> "TX", fips |-> "48"] >>
\* values of the stateFilter prop: null, listed abbreviations, an unlisted one
FitFilters == {AllStates, "CA", "DC", "TX", "ZZ"}

\* nested coordinate arrays: a position [lng, lat] in whole degrees, or an
\* array of arrays
Pos(lng, lat) == [kind |-> "pos", lng |-> lng, lat |-> lat, items |-> <<>>]
List(items) == [kind |-> "list", lng |-> 0, lat |-> 0, items |-> items]

\* feature.geometry; type "null" stands for a null geometry, and neither it
\* nor a GeometryCollection has coordinates
Geometry(type, coordinates) == [type |-> type, coordinates |-> coordinates]

\* a feature as the effect reads it: properties.STATE and geometry
FitFeature(st, geom) == [STATE |-> st, geometry |-> geom]
FitFeatures ==
    { FitFeature("48", Geometry("Polygon",
          List(<<List(<<Pos(-100, 30), Pos(-95, 30), Pos(-95, 35), Pos(-100, 30)>>)>>))),
      FitFeature("48", Geometry("MultiPolygon",
          List(<<List(<<List(<<Pos(-105, 28), Pos(-103, 29)>>)>>),
                 List(<<List(<<Pos(-98, 26), Pos(-99, 27)>>)>>)>>))),
      FitFeature("48", Geometry("Point", Pos(-97, 31))),
      FitFeature("48", Geometry("LineString", List(<<Pos(-97, 30), Pos(-97, 33)>>))),
      FitFeature("48", Geometry("GeometryCollection", List(<<>>))),
      FitFeature("48", Geometry("null", List(<<>>))),
      FitFeature("06", Geometry("Polygon",
          List(<<List(<<Pos(-124, 33), Pos(-115, 33), Pos(-115, 41)>>)>>))),
      FitFeature("undefined", Geometry("Polygon",
          List(<<List(<<Pos(-80, 25), Pos(-70, 45)>>)>>))) }

\* geojsonRef.current as the effect reads it: null, or the features
FitGeo(isNull, fs) == [isNull |-> isNull, features |-> fs]
FitGeos ==
    {FitGeo(TRUE, <<>>)} \cup
    UNION { {FitGeo(FALSE, f) : f \in [1..n -> FitFeatures]} : n \in 0..MaxFitFeatures }

\* the positions the stack walk of lines 158-174 visits under `c`
RECURSIVE Walk(_)
Walk(c) ==
    IF c.kind = "pos" THEN {<<c.lng, c.lat>>}
    ELSE UNION {Walk(c.items[i]) : i \in 1..Len(c.items)}

\* Infinity, beyond every longitude and latitude
Infinity == 1000
Least(S) == CHOOSE v \in S : \A w \in S : v <= w
Greatest(S) == CHOOSE v \in S : \A w \in S : v >= w

\* minLng, minLat, maxLng, maxLat after the loop over `features`
BoundingBox(features) ==
    LET walked == {i \in 1..Len(features) :
                      features[i].geometry.type \notin {"null", "GeometryCollection"}}
        pts == UNION {Walk(features[i].geometry.coordinates) : i \in walked}
    IN  [minLng |-> Least({Infinity} \cup {q[1] : q \in pts}),
         minLat |-> Least({Infinity} \cup {q[2] : q \in pts}),
         maxLng |-> Greatest({-Infinity} \cup {q[1] : q \in pts}),
         maxLat |-> Greatest({-Infinity} \cup {q[2] : q \in pts})]

\* minLng < maxLng && minLat < maxLat
\* (variant: a box of no width or height is let through)
NonDegenerate_Lax(box) == box.minLng <= box.maxLng /\ box.minLat <= box.maxLat
NonDegenerate(box) == box.minLng < box.maxLng /\ box.minLat < box.maxLat

\* calls on the engine; the centre is in tenths of a degree
NoEngineCall == [op |-> "none", args |-> <<>>]
FlyToDefault == [op |-> "flyTo", args |-> <<-985, 398, 4>>]
FitBounds(box) ==
    [op |-> "fitBounds", args |-> <<box.minLng, box.minLat, box.maxLng, box.maxLat, 40, 10>>]

\* the engine call of one run of the fit-bounds effect
fitBoundsEffect(filter, geojson) ==
    IF filter = AllStates THEN FlyToDefault
    ELSE LET found == {i \in 1..Len(stateList) : stateList[i].abbreviation = filter} IN
         IF found = {} THEN NoEngineCall
         ELSE IF geojson.isNull THEN NoEngineCall
         ELSE LET stateEntry == stateList[CHOOSE i \in found : \A j \in found : i <= j]
                  InState(f) == f.STATE = stateEntry.fips
                  features == SelectSeq(geojson.features, InState)
              IN  IF Len(features) = 0 THEN NoEngineCall
                  ELSE IF NonDegenerate(BoundingBox(features))
                       THEN FitBounds(BoundingBox(features))
                       ELSE NoEngineCall

NoFitCall == [called |-> FALSE, filter |-> AllStates, geojson |-> FitGeo(TRUE, <<>>),
              call |-> NoEngineCall]

InitCalls ==
    /\ fillCall = NoFillCall
    /\ memoCall = NoMemoCall
    /\ fitCall = NoFitCall

\* buildFillColorExpression(s, m) is called
BuildFillColor(s, m) ==
    /\ fillCall = NoFillCall
    /\ fillCall' = [scores |-> s, metric |-> m, result |-> buildFillColorExpression(s, m)]
    /\ UNCHANGED <<ivars, cvars, dvars, mvars, tvars, bvars, fvars, memoCall, fitCall>>

NextFill ==
    /\ fillCall = NoFillCall
    /\ \E s \in FillScoreSets, m \in AllMetricKeys : BuildFillColor(s, m)

\* useIndustryData renders with rawScores = raw and stateFilter = filter: both
\* memos are computed
ComputeMemos(raw, filter) ==
    /\ ~memoCall.called
    /\ memoCall' = [called |-> TRUE, raw |-> raw, filter |-> filter,
                    scores |-> filterScores(raw, filter),
                    top |-> topCounties(filterScores(raw, filter))]
    /\ UNCHANGED <<ivars, cvars, dvars, mvars, tvars, bvars, fvars, fillCall, fitCall>>

NextMemo ==
    /\ ~memoCall.called
    /\ \E raw \in MemoScoreSets \cup BigScoreSets, filter \in MemoFilters :
        ComputeMemos(raw, filter)

\* the fit-bounds effect runs with stateFilter = filter and
\* geojsonRef.current = geojson
RunFitBounds(filter, geojson) ==
    /\ ~fitCall.called
    /\ fitCall' = [called |-> TRUE, filter |-> filter, geojson |-> geojson,
                   call |-> fitBoundsEffect(filter, geojson)]
    /\ UNCHANGED <<ivars, cvars, dvars, mvars, tvars, bvars, fvars, fillCall, memoCall>>

NextFit ==
    /\ ~fitCall.called
    /\ \E filter \in FitFilters, geojson \in FitGeos : RunFitBounds(filter, geojson)

\* ------------------------------------------------------------------------
\* MapTooltip
\* ------------------------------------------------------------------------

\* values of the scores prop
TipScores ==
    { ScoresNull,
      ScoresOf(<<ScoreEntry(<<"1","2","0","1","1">>, "FL", 80)>>),
      ScoresOf(<<ScoreEntry(<<"1","2","0","1","1">>, "FL", 55)>>) }

\* a feature under the pointer: properties.GEOID and properties.NAME
\* (NAME "" stands for a missing or empty name)
TipFeature(fips, name) == [GEOID |-> fips, NAME |-> name]
\* a MapLayerMouseEvent: point and features
TipEvent(x, y, features) == [x |-> x, y |-> y, features |-> features]
TipEvents ==
    { TipEvent(1, 1, <<>>),
      TipEvent(1, 1, <<TipFeature(<<"1","2","0","1","1">>, "Broward")>>),
      TipEvent(2, 3, <<TipFeature(<<"4","8","2","0","1">>, "Harris"),
                       TipFeature(<<"1","2","0","1","1">>, "Broward")>>),
      TipEvent(2, 3, <<TipFeature(<<"1","2","0","1","1">>, "")>>),
      TipEvent(1, 1, <<TipFeature(Undefined, "Harris")>>) }

\* score: number | null
TipScore(isNull, v) == [isNull |-> isNull, value |-> v]
\* TooltipState | null
NoTooltip == [shown |-> FALSE, x |-> 0, y |-> 0, countyName |-> "", stateName |-> "",
              score |-> TipScore(TRUE, 0)]
Tooltip(x, y, countyName, stateName, score) ==
    [shown |-> TRUE, x |-> x, y |-> y, countyName |-> countyName,
     stateName |-> stateName, score |-> score]

\* the argument of setTooltip in the frame callback scheduled for event e,
\* with scoresRef.current = scores
frameTooltip(e, scores) ==
    IF Len(e.features) = 0 THEN NoTooltip
    ELSE LET feature == e.features[1]
             fips == feature.GEOID
             name == feature.NAME
             found == {i \in 1..Len(scores.entries) : scores.entries[i].fips = fips}
         IN  IF fips \in {Undefined, <<>>} \/ name = "" THEN NoTooltip
             ELSE IF scores.isNull \/ found = {}
                  THEN Tooltip(e.x, e.y, name, "", TipScore(TRUE, 0))
                  ELSE LET scoreEntry == scores.entries[CHOOSE i \in found : TRUE]
                       IN  Tooltip(e.x, e.y, name, scoreEntry.state,
                                   TipScore(FALSE, scoreEntry.score))

\* cancelAnimationFrame(handle)
cancelAnimationFrame(queue, handle) ==
    LET Other(c) == c.id # handle IN SelectSeq(queue, Other)

\* the queue once the pending frame of rafRef.current, if any, is cancelled
\* (variant: nothing is cancelled)
CancelPending_Kept(queue, ref) == queue
CancelPending(queue, ref) ==
    IF ref # 0 THEN cancelAnimationFrame(queue, ref) ELSE queue

NoBurst == [k |-> 0, last |-> TipEvent(0, 0, <<>>)]
NoFrame == [ran |-> FALSE, k |-> 0, last |-> TipEvent(0, 0, <<>>), scores |-> ScoresNull,
            ids |-> <<>>, updates |-> <<>>]

NoLeave == [at |-> 0, pending |-> 0]

InitTooltip ==
    /\ tipMounted = TRUE
    /\ tipListeners = {"mousemove", "mouseleave"}
    /\ tipScores = ScoresNull
    /\ rafRef = 0
    /\ rafNext = 1
    /\ rafQueue = <<>>
    /\ tooltip = NoTooltip
    /\ burst = NoBurst
    /\ frameLog = NoFrame
    /\ leaveMark = NoLeave

\* handleMouseMove(e)
handleMouseMove(e) ==
    /\ "mousemove" \in tipListeners
    /\ rafNext <= MaxMoves
    /\ rafQueue' = Append(CancelPending(rafQueue, rafRef), [id |-> rafNext, e |-> e])
    /\ rafRef' = rafNext
    /\ rafNext' = rafNext + 1
    /\ burst' = [k |-> burst.k + 1, last |-> e]
    /\ UNCHANGED <<tipMounted, tipListeners, tipScores, tooltip, frameLog, leaveMark,
                   nonTooltip>>

\* the browser runs the scheduled frame callbacks, in order; each sets
\* rafRef.current to null and calls setTooltip
AnimationFrame ==
    /\ rafQueue # <<>>
    /\ rafQueue' = <<>>
    /\ rafRef' = 0
    /\ tooltip' = IF tipMounted
                  THEN frameTooltip(rafQueue[Len(rafQueue)].e, tipScores)
                  ELSE tooltip
    /\ frameLog' = [ran |-> TRUE, k |-> burst.k, last |-> burst.last,
                    scores |-> tipScores,
                    ids |-> [i \in 1..Len(rafQueue) |-> rafQueue[i].id],
                    updates |-> [i \in 1..Len(rafQueue) |->
                                   frameTooltip(rafQueue[i].e, tipScores)]]
    /\ burst' = NoBurst
    /\ UNCHANGED <<tipMounted, tipListeners, tipScores, rafNext, leaveMark, nonTooltip>>

\* handleMouseLeave()
\* (variant: the pending frame is forgotten, not cancelled)
handleMouseLeave_NoCancel ==
    /\ "mouseleave" \in tipListeners
    /\ rafQueue' = rafQueue
    /\ rafRef' = 0
    /\ tooltip' = NoTooltip
    /\ burst' = NoBurst
    /\ frameLog' = NoFrame
    /\ leaveMark' = [at |-> rafNext, pending |-> rafRef]
    /\ UNCHANGED <<tipMounted, tipListeners, tipScores, rafNext, nonTooltip>>
handleMouseLeave ==
    /\ "mouseleave" \in tipListeners
    /\ rafQueue' = CancelPending(rafQueue, rafRef)
    /\ rafRef' = 0
    /\ tooltip' = NoTooltip
    /\ burst' = NoBurst
    /\ frameLog' = NoFrame
    /\ leaveMark' = [at |-> rafNext, pending |-> rafRef]
    /\ UNCHANGED <<tipMounted, tipListeners, tipScores, rafNext, nonTooltip>>

\* MapView renders with another scores prop: scoresRef.current = scores
SetTipScores(s) ==
    /\ tipMounted
    /\ s # tipScores
    /\ tipScores' = s
    /\ UNCHANGED <<tipMounted, tipListeners, rafRef, rafNext, rafQueue, tooltip, burst,
                   frameLog, leaveMark, nonTooltip>>

\* the effect's cleanup when MapTooltip unmounts; its state is discarded
\* (variant: the 'mousemove' handler stays registered)
TipUnmount_KeepsMove ==
    /\ tipMounted
    /\ tipMounted' = FALSE
    /\ tipListeners' = tipListeners \ {"mouseleave"}
    /\ rafQueue' = CancelPending(rafQueue, rafRef)
    /\ rafRef' = 0
    /\ tooltip' = NoTooltip
    /\ burst' = NoBurst
    /\ frameLog' = NoFrame
    /\ leaveMark' = [at |-> 0, pending |-> rafRef]
    /\ UNCHANGED <<tipScores, rafNext, nonTooltip>>
TipUnmount ==
    /\ tipMounted
    /\ tipMounted' = FALSE
    /\ tipListeners' = tipListeners \ {"mousemove", "mouseleave"}
    /\ rafQueue' = CancelPending(rafQueue, rafRef)
    /\ rafRef' = 0
    /\ tooltip' = NoTooltip
    /\ burst' = NoBurst
    /\ frameLog' = NoFrame
    /\ leaveMark' = [at |-> 0, pending |-> rafRef]
    /\ UNCHANGED <<tipScores, rafNext, nonTooltip>>

\* MapTooltip mounts again: fresh state and ref, the listeners attached
TipMount ==
    /\ ~tipMounted
    /\ tipMounted' = TRUE
    /\ tipListeners' = tipListeners \cup {"mousemove", "mouseleave"}
    /\ \E s \in TipScores : tipScores' = s
    /\ leaveMark' = NoLeave
    /\ UNCHANGED <<rafRef, rafNext, rafQueue, tooltip, burst, frameLog, nonTooltip>>

NextTooltip ==
    \/ \E e \in TipEvents : handleMouseMove(e)
    \/ AnimationFrame
    \/ handleMouseLeave
    \/ \E s \in TipScores : SetTipScores(s)
    \/ TipUnmount
    \/ TipMount

\* ------------------------------------------------------------------------
\* MapErrorBoundary
\* ------------------------------------------------------------------------

\* errors a child may throw while rendering, as their messages
NoFault == ""
RenderErrors == {"Test error", "Style is not done loading", "WebGL context lost"}

InitBoundary ==
    /\ hasError = FALSE
    /\ childFault = NoFault
    /\ rendered = "children"
    /\ consoleLog = <<>>
    /\ appCrashed = FALSE

\* a class with getDerivedStateFromError is an error boundary: React gives
\* it the errors thrown while its children render
\* (variant: the class does not define it)
IsErrorBoundary_Undefined == FALSE
IsErrorBoundary == TRUE

\* render() with state.hasError = failed and children that throw `fault`;
\* an error thrown by the children is caught (getDerivedStateFromError, then
\* render() again, then componentDidCatch) or goes up the tree
renderBoundary(failed, fault) ==
    IF failed
    THEN /\ hasError' = TRUE
         /\ rendered' = "fallback"
         /\ UNCHANGED <<consoleLog, appCrashed>>
    ELSE IF fault = NoFault
    THEN /\ hasError' = FALSE
         /\ rendered' = "children"
         /\ UNCHANGED <<consoleLog, appCrashed>>
    ELSE IF IsErrorBoundary
    THEN /\ Len(consoleLog) < MaxCatches
         /\ hasError' = TRUE
         /\ rendered' = "fallback"
         /\ consoleLog' = Append(consoleLog, fault)
         /\ UNCHANGED appCrashed
    ELSE /\ hasError' = FALSE
         /\ rendered' = "nothing"
         /\ appCrashed' = TRUE
         /\ UNCHANGED consoleLog

\* the parent renders the boundary again, with children that throw `fault`
\* or render
RenderBoundary(fault) ==
    /\ ~appCrashed
    /\ fault # childFault
    /\ childFault' = fault
    /\ renderBoundary(hasError, fault)
    /\ UNCHANGED nonBoundary

\* the Retry button of the fallback: setState({ hasError: false }), render
RetryBoundary ==
    /\ rendered = "fallback"
    /\ renderBoundary(FALSE, childFault)
    /\ UNCHANGED <<childFault, nonBoundary>>

NextBoundary ==
    \/ \E fault \in {NoFault} \cup RenderErrors : RenderBoundary(fault)
    \/ RetryBoundary

\* ------------------------------------------------------------------------
\* MapView: the fit-bounds effect among the map's events
\* ------------------------------------------------------------------------

\* values of the stateFilter prop MapView is rendered with
MapFilters == {AllStates, "TX", "CA"}

\* the cached payload as the fit-bounds effect reads it: the i-th county of
\* the file lies in Texas and has a polygon of its own, unless its geometry
\* is null
FitView(data) ==
    IF data = NoGeo THEN FitGeo(TRUE, <<>>)
    ELSE FitGeo(FALSE,
           [i \in 1..Len(data.features) |->
              FitFeature("48",
                IF data.features[i].geometry = "null"
                THEN Geometry("null", List(<<>>))
                ELSE Geometry("Polygon",
                       List(<<List(<<Pos(-100 - i, 30), Pos(-95 - i, 30),
                                     Pos(-95 - i, 35 - i), Pos(-100 - i, 30)>>)>>)))])

\* one run of the effect: the props it ran with and its engine call
FitRun(trigger, filter, status, cache) ==
    [trigger |-> trigger, filter |-> filter, status |-> status,
     call |-> fitBoundsEffect(filter, FitView(cache))]

\* on mount mapRef.current is set, stateFilter is null
InitFit ==
    /\ mapFilter = AllStates
    /\ fitLog = FitRun("mount", AllStates, "loading", NoGeo)

\* the dependencies of the effect have changed between two renders
\* (variant: the effect depends on stateFilter alone)
FitDepsChanged_FilterOnly == mapFilter' # mapFilter
FitDepsChanged == mapFilter' # mapFilter \/ geojsonStatus' # geojsonStatus

\* the render that ends an event of the map: the effect runs if one of its
\* dependencies has changed; when MapView unmounts nothing runs, and the log
\* starts afresh
FitEffect ==
    /\ mapFilter' = mapFilter
    /\ fitLog' = IF engine' # "live" THEN FitRun("mount", AllStates, "loading", NoGeo)
                 ELSE IF FitDepsChanged
                 THEN FitRun("status", mapFilter, geojsonStatus', geojsonRef')
                 ELSE fitLog

\* App renders MapView with another state filter
SetStateFilter(f) ==
    /\ engine = "live"
    /\ f # mapFilter
    /\ mapFilter' = f
    /\ fitLog' = FitRun("filter", f, geojsonStatus, geojsonRef)
    /\ UNCHANGED <<mvars, nonMap>>

NextMap ==
    /\ \/ \E t \in Themes, after \in {NoStyle, LIGHT_STYLE, DARK_STYLE} : ThemeChange(t, after)
       \/ \E fires \in BOOLEAN : EngineStyleDone(fires)
       \/ EngineLoad
       \/ TimerFires
       \/ \E n \in 1..MaxGeoFetches, data \in Payloads : GeoFetchSucceeds(n, data)
       \/ \E n \in 1..MaxGeoFetches : GeoFetchFails(n)
       \/ RetryLoadGeojson
       \/ \E s \in ScoresProps, m \in MetricKeys : SetFillProps(s, m)
       \/ TeardownMap
    /\ FitEffect

\* the same with clicks on the fill layer, the scores and metric left alone
NextMapClick ==
    /\ \/ \E t \in Themes, after \in {NoStyle, LIGHT_STYLE, DARK_STYLE} : ThemeChange(t, after)
       \/ \E fires \in BOOLEAN : EngineStyleDone(fires)
       \/ EngineLoad
       \/ TimerFires
       \/ \E n \in 1..MaxGeoFetches, data \in Payloads : GeoFetchSucceeds(n, data)
       \/ \E n \in 1..MaxGeoFetches : GeoFetchFails(n)
       \/ RetryLoadGeojson
       \/ TeardownMap
       \/ \E features \in ClickEvents : MapClick(features)
    /\ FitEffect

\* the same with state filters chosen, the scores and metric left alone
NextMapFit ==
    \/ /\ \/ \E t \in Themes, after \in {NoStyle, LIGHT_STYLE, DARK_STYLE} : ThemeChange(t, after)
          \/ \E fires \in BOOLEAN : EngineStyleDone(fires)
          \/ EngineLoad
          \/ TimerFires
          \/ \E n \in 1..MaxGeoFetches, data \in Payloads : GeoFetchSucceeds(n, data)
          \/ \E n \in 1..MaxGeoFetches : GeoFetchFails(n)
          \/ RetryLoadGeojson
          \/ TeardownMap
       /\ FitEffect
    \/ \E f \in MapFilters : SetStateFilter(f)

Init ==
    /\ InitIndustry /\ InitCounty /\ InitMap /\ InitCalls /\ InitTooltip
    /\ InitBoundary /\ InitFit

SpecIndustry == Init /\ [][NextIndustry]_vars

\* ensureLoaded, retry, fetch completions and renders in any order
SpecCounty == Init /\ [][NextCounty]_vars

\* the same without retry
SpecCountyLoad == Init /\ [][NextCountyLoad]_vars

\* the same with retry() called only while a failure stands
SpecCountyRetry == Init /\ [][NextCountyRetry]_vars

\* the hook as App and DetailPanel drive it
SpecDetail == Init /\ [][NextDetail]_vars

\* MapView with its ChoroplethLayer, the engine, the network and the user
SpecMap == Init /\ [][NextMap]_vars

\* the same with the user clicking counties
SpecMapClick == Init /\ [][NextMapClick]_vars

\* the same with the user choosing state filters
SpecMapFit == Init /\ [][NextMapFit]_vars

\* buildFillColorExpression applied to score objects and metrics
SpecFill == Init /\ [][NextFill]_vars

\* the scores and topCounties memos applied to score files and state filters
SpecMemo == Init /\ [][NextMemo]_vars

\* the fit-bounds effect applied to state filters and cached geometries
SpecFit == Init /\ [][NextFit]_vars

\* MapTooltip under pointer events, animation frames and re-mounts
SpecTooltip == Init /\ [][NextTooltip]_vars

\* MapErrorBoundary around children that throw or render
SpecBoundary == Init /\ [][NextBoundary]_vars

\* ------------------------------------------------------------------------
\* Properties of useIndustryData (checked under SpecIndustry)
\* ------------------------------------------------------------------------

\* C1: for any industry id, overlapping requests for its score set never have
\* more than one network fetch outstanding (one fetch serves them all).
C1_OneOutstandingFetchPerId ==
    \A i \in pending, j \in pending : scoreRequests[i] = scoreRequests[j] => i = j

\* C2: the completion (success or failure) of a score fetch that is no longer
\* the load of the current effect run - the selection changed or the hook was
\* unmounted while it was pending - leaves the exposed scores, the loading
\* flag and the error as they are.
C2_StaleCompletionIgnored ==
    [][\A n \in pending :
          (n \notin pending' /\ n # effectLoad)
              => /\ rawScores' = rawScores
                 /\ scoresLoading' = scoresLoading
                 /\ scoresError' = scoresError]_vars

\* a stale success came back while the newer selection is still loading
C2_Witness ==
    /\ \E r \in settled : r.ok /\ ~r.live
    /\ \E r \in settled : ~r.ok /\ ~r.live
    /\ scoresLoading
    /\ selectedIndustryId = IdGyms

IsValidationError(e, id) == e = ErrBadFormat \/ e = ErrUnknownId(id)

\* C3 as stated: from every prior state, a selected id that does not match the
\* pattern, or (the catalog being loaded) is not in the catalog, has a
\* validation error, null scores and no score request.
C3_Original ==
    (/\ selectedIndustryId # Null
     /\ \/ ~ID_FORMAT(selectedIndustryId)
        \/ (~industriesLoading /\ selectedIndustryId \notin industriesRef))
        => /\ IsValidationError(scoresError, selectedIndustryId)
           /\ rawScores = NoScores
           /\ \A i \in 1..Len(scoreRequests) : scoreRequests[i] # selectedIndustryId

\* C3 amended: once the catalog load has finished, a selected non-empty id that
\* does not match the pattern or is not in the catalog has a validation error
\* and null scores; and no score request is ever issued for an id that fails
\* the pattern or is not in the catalog.
C3_InvalidIdRejected ==
    /\ (/\ ~industriesLoading
        /\ ~IsFalsyId(selectedIndustryId)
        /\ (~ID_FORMAT(selectedIndustryId) \/ selectedIndustryId \notin industriesRef))
           => /\ IsValidationError(scoresError, selectedIndustryId)
              /\ rawScores = NoScores
              /\ ~scoresLoading
    /\ \A i \in 1..Len(scoreRequests) :
           ID_FORMAT(scoreRequests[i]) /\ scoreRequests[i] \in industriesRef

\* an id of the catalog that fails the pattern is selected after a fetch for
\* another id was started
C3_Witness ==
    /\ selectedIndustryId = IdSlash
    /\ IdSlash \in industriesRef
    /\ scoresError = ErrBadFormat
    /\ pending # {}

\* C4: once a score fetch for X has succeeded, no later step issues a request
\* for X.
C4_NoRefetchAfterSuccess ==
    [][\A r \in settled :
          (r.ok /\ Len(scoreRequests') > Len(scoreRequests))
              => scoreRequests'[Len(scoreRequests')] # scoreRequests[r.n]]_vars

\* C5: a score-cache entry, once written, is never overwritten, changed or
\* removed by any step.
C5_CacheWriteOnce ==
    [][\A id \in SelectableIds :
          scoreCache[id] # NoScores => scoreCache'[id] = scoreCache[id]]_vars

\* two entries are cached, and selections, a state-filter change and a failed
\* fetch have happened since the first was written
C5_Witness ==
    /\ scoreCache[IdCoffee] # NoScores
    /\ scoreCache[IdGyms] # NoScores
    /\ scoreCache[IdCoffee].obj < scoreCache[IdGyms].obj
    /\ stateFilter = "TX"
    /\ \E r \in settled : ~r.ok

FailedLive(id) == \E r \in settled : ~r.ok /\ r.live /\ scoreRequests[r.n] = id

\* C6: a failed fetch of the current selection writes nothing to the cache and
\* sets the error; selecting an id whose fetch failed (and that is not cached)
\* issues a new fetch for it; and when the fetch of the current selection
\* succeeds the error is null and the scores of that id are exposed.
C6_FailureThenRetry ==
    [][/\ \A n \in pending :
             (n \notin pending' /\ n = effectLoad /\ \E r \in settled' : r.n = n /\ ~r.ok)
                 => /\ scoreCache' = scoreCache
                    /\ scoresError' \in ScoreFailures
                    /\ ~scoresLoading'
       /\ \A id \in SelectableIds :
             (/\ FailedLive(id)
              /\ scoreCache[id] = NoScores
              /\ selectedIndustryId # id
              /\ selectedIndustryId' = id)
                 => /\ Len(scoreRequests') = Len(scoreRequests) + 1
                    /\ scoreRequests'[Len(scoreRequests')] = id
                    /\ scoresError' = NoError
       /\ \A n \in pending :
             (n \notin pending' /\ n = effectLoad /\ \E r \in settled' : r.n = n /\ r.ok)
                 => /\ scoresError' = NoError
                    /\ rawScores' = ScoreObject(selectedIndustryId, n)
                    /\ scoreCache'[selectedIndustryId] = rawScores'
      ]_vars

\* the fetch of an id failed, the id was selected again and its second fetch
\* succeeded
C6_Witness ==
    \E r1 \in settled, r2 \in settled :
        /\ ~r1.ok /\ r1.live
        /\ r2.ok /\ r2.live
        /\ r1.n < r2.n
        /\ scoreRequests[r1.n] = scoreRequests[r2.n]
        /\ rawScores = ScoreObject(scoreRequests[r2.n], r2.n)
        /\ scoresError = NoError

\* ------------------------------------------------------------------------
\* Properties of useCountyData
\* ------------------------------------------------------------------------
Outstanding == {p \in 1..Len(promises) : promises[p] = "pending"}

IsEnsureLoadedStep == Len(calls') = Len(calls) + 1

\* C7: a call of ensureLoaded made while the fetch is unresolved issues no
\* fetch and shares the pending promise; every caller of a fetch that
\* succeeded has received the one object it produced; a call made after the
\* success issues no fetch and returns that object.
C7_SharedLoad ==
    [][/\ (IsEnsureLoadedStep /\ Outstanding # {})
             => /\ promises' = promises
                /\ calls'[Len(calls')].how = "join"
                /\ calls'[Len(calls')].p \in Outstanding
       /\ (IsEnsureLoadedStep /\ demoState.data # 0)
             => /\ promises' = promises
                /\ calls'[Len(calls')].res = Resolved(demoState.data)
       /\ \A i \in 1..Len(calls') :
             (calls'[i].p # 0 /\ promises'[calls'[i].p] = "fulfilled")
                 => calls'[i].res = Resolved(calls'[i].p)
      ]_vars

\* two callers shared one fetch, it succeeded, and a later call returned the
\* same object straight from the state
C7_Witness ==
    /\ Len(promises) = 1
    /\ \E i, j, k \in 1..Len(calls) :
          /\ calls[i].how = "own" /\ calls[j].how = "join" /\ calls[k].how = "loaded"
          /\ calls[i].res = Resolved(1)
          /\ calls[j].res = Resolved(1)
          /\ calls[k].res = Resolved(1)

\* C8: at most one demographics fetch is outstanding, in every interleaving of
\* ensureLoaded, retry and fetch completions.
C8_AtMostOneOutstanding == Cardinality(Outstanding) <= 1

\* C9: when the shared fetch fails, every caller attached to it gets the
\* outcome of the first caller: the null result, never a rejected promise.
C9_SameOutcomeOnFailure ==
    \A i \in 1..Len(calls) :
        (calls[i].p # 0 /\ promises[calls[i].p] = "rejected")
            => calls[i].res = Resolved(0)

\* C10: while the failure of a demographics fetch stands (the error is set: no
\* retry() since), a call of ensureLoaded issues no fetch and returns null.
C10_NoAutoRetry ==
    [][(IsEnsureLoadedStep /\ demoState.error # NoError)
          => /\ promises' = promises
             /\ calls'[Len(calls')].res = Resolved(0)]_vars

\* the last fetch issued was rejected and nothing is outstanding
LastLoadFailed ==
    /\ Len(promises) > 0
    /\ promises[Len(promises)] = "rejected"
    /\ Outstanding = {}

\* C11: retry() called after a failed load clears the error state and re-arms
\* the load: fetchedRef and promiseRef are reset and the state is the initial
\* one; the next ensureLoaded() issues exactly one fetch, calls made while it
\* is unresolved issue none; when that fetch succeeds the state holds its
\* data and a null error.
C11_RetryRearmsOneAttempt ==
    [][/\ (demoState.error # NoError /\ demoState'.error = NoError /\ promises' = promises)
             => /\ demoState' = InitialDemoState
                /\ ~fetchedRef'
                /\ promiseRef' = 0
       /\ (IsEnsureLoadedStep /\ LastLoadFailed /\ demoState.error = NoError)
             => /\ Len(promises') = Len(promises) + 1
                /\ Cardinality({p \in 1..Len(promises') : promises'[p] = "pending"}) = 1
       /\ (IsEnsureLoadedStep /\ Outstanding # {})
             => promises' = promises
       /\ \A p \in Outstanding :
             promises'[p] = "fulfilled"
                 => /\ demoState'.data = p
                    /\ demoState'.error = NoError
                    /\ ~demoState'.loading
      ]_vars

\* a load failed and the failure was rendered (a call was refused), retry()
\* was called, the second fetch succeeded and its data is rendered
C11_Witness ==
    /\ promises = <<"rejected", "fulfilled">>
    /\ \E i \in 1..Len(calls) : calls[i].how = "failed"
    /\ demoState = [data |-> 2, loading |-> FALSE, error |-> NoError]
    /\ stateRef = demoState

\* C12: once the retry affordance of the detail panel has been invoked for a
\* selected county (the failed state is cleared and rendered), a new
\* demographics fetch has been issued: the last fetch is not the failed one.
C12_RetryRefetches ==
    (/\ selectedCountyFips # Null
     /\ ~fetchedRef
     /\ demoState = InitialDemoState
     /\ stateRef = demoState
     /\ Len(promises) > 0)
        => promises[Len(promises)] # "rejected"

\* ------------------------------------------------------------------------
\* Properties of MapView and ChoroplethLayer (checked under SpecMap)
\* ------------------------------------------------------------------------

\* C13: whenever the geometry is attached to the engine (the layer is mounted
\* and the geometry status is loaded) the fill-colour paint property is the
\* one for the current scores and metric: the flat no-data colour for null or
\* empty scores, the built expression otherwise.
C13_FillMatchesProps ==
    (mapReady /\ geojsonStatus = "loaded" /\ hasSource)
        => fillColor = FillColor(mapScores, metric)

\* C14: while a style swap has the map marked not ready (the engine has
\* emitted 'load', so only the swap can restore readiness), something that
\* sets it ready again is still to come: the style-loaded listener is
\* registered or the fallback timer is set, whatever theme changes were made
\* during the swap.
C14_SwapRestoresReadiness ==
    (engine = "live" /\ loadFired /\ ~mapReady)
        => (styleListener \/ timerArmed)

\* C15: until the engine has emitted its 'load' signal the map is not ready,
\* and no geometry fetch, source or layer registration or click listener has
\* been issued.
C15_NotReadyBeforeLoad ==
    ~loadFired
        => /\ ~mapReady
           /\ geoRequests = <<>>
           /\ ~hasSource
           /\ clickListeners = 0

\* C16: a theme change whose resolved theme is the one of the style the engine
\* has loaded issues no style swap (no request, no listener, no timer) and
\* leaves readiness, the geometry status and the attached source and layers
\* as they are.
C16_MatchingThemeNoSwap ==
    [][(/\ theme' # theme
        /\ engineStyle # NoStyle
        /\ engineStyle = StyleFor(resolvedTheme(theme', osDark)))
          => /\ ~styleListener' /\ ~timerArmed'
             /\ UNCHANGED <<engineStyle, requestedStyle, stylePending, mapReady,
                            geojsonStatus, hasSource, sourceData, fillColor,
                            clickListeners, loadedRef, geoRequests>>
      ]_vars

\* the geometry is attached under the dark style and the last run of the
\* style-switch effect returned without swapping (no listener, no timer,
\* nothing settled) for a theme that resolves to dark
C16_Witness ==
    /\ resolvedTheme(theme, osDark) = "dark"
    /\ engineStyle = DARK_STYLE
    /\ ~styleListener /\ ~timerArmed /\ ~swapSettled
    /\ mapReady /\ hasSource /\ geojsonStatus = "loaded"

\* C17: once MapView is torn down the engine has been removed exactly once,
\* readiness and the geometry status have their initial values, and nothing
\* that arrives later - timer, signal or geometry response - sets readiness,
\* issues a geometry fetch or touches the removed engine (style, source,
\* layers, paint, listeners) or the cached geometry.
C17_TeardownIsFinal ==
    [][engine' = "removed"
          => /\ removals' = 1
             /\ ~mapReady'
             /\ geojsonStatus' = "loading"
             /\ ~hasSource'
             /\ fillColor' = NoPaint
             /\ clickListeners' = 0
             /\ Len(geoRequests') = Len(geoRequests)
             /\ UNCHANGED <<engineStyle, requestedStyle, stylePending, geojsonRef>>
      ]_vars

\* torn down in the middle of a style swap, and a geometry response arrived
\* after that
C17_Witness ==
    /\ engine = "removed"
    /\ stylePending /\ ~swapSettled
    /\ \E n \in 1..Len(geoRequests) : geoRequests[n] = "after-teardown"

\* C18 as stated: once the geometry is cached, no step issues a geometry
\* network request.
C18_Original ==
    [][geojsonRef # NoGeo => Len(geoRequests') = Len(geoRequests)]_vars

\* C18: once the geometry is cached, whenever ChoroplethLayer mounts again
\* (the map turns ready after a restyle) on an engine whose style is loaded,
\* the source and layers are there with the cached geometry, the status is
\* loaded and no request is issued; a geometry request is issued with a
\* cached geometry only when the engine's style is not done loading (the
\* cached geometry cannot be added and the effect falls through to the fetch).
C18_ReattachFromCache ==
    [][/\ (geojsonRef # NoGeo /\ ~mapReady /\ mapReady' /\ engineStyle' # NoStyle)
             => /\ hasSource'
                /\ sourceData'.data = geojsonRef
                /\ geojsonStatus' = "loaded"
                /\ geoRequests' = geoRequests
       /\ (geojsonRef # NoGeo /\ Len(geoRequests') > Len(geoRequests))
             => engineStyle' = NoStyle
      ]_vars

\* after a restyle the source was added from the cache; one request in all
C18_Witness ==
    /\ mapReady
    /\ hasSource
    /\ sourceData = Source(geojsonRef, "cache")
    /\ geojsonStatus = "loaded"
    /\ geoRequests = <<"handled">>

\* C19: a geometry fetch that was pending when a restyle or the teardown
\* began (it is no longer the load of a mounted layer's current effect run)
\* adds no source or layer and leaves the geometry status and the cached
\* geometry as they are when it completes, whether it succeeds or fails.
C19_AbandonedFetchIgnored ==
    [][\A n \in 1..Len(geoRequests) :
          (geoRequests[n] = "pending" /\ geoRequests'[n] # "pending" /\ n # geoEffectLoad)
              => UNCHANGED <<hasSource, sourceData, fillColor, clickListeners,
                             geojsonStatus, geojsonRef, loadedRef, mapReady>>
      ]_vars

\* one fetch was abandoned by a restyle and completed during it, the next
\* was abandoned by the teardown and completed after it
C19_Witness ==
    /\ engine = "removed"
    /\ geoRequests = <<"stale", "after-teardown">>

\* the acceptance condition as C20 states it: every feature has a string
\* GEOID and a non-null geometry object
EveryFeatureValid(data) ==
    /\ data.kind = "object"
    /\ data.type = "FeatureCollection"
    /\ data.isArray
    /\ \A i \in 1..Len(data.features) :
          data.features[i].GEOID = "string" /\ data.features[i].geometry = "object"

\* the acceptance condition on the first feature only
FirstFeatureValid(data) ==
    /\ data.kind = "object"
    /\ data.type = "FeatureCollection"
    /\ data.isArray
    /\ Len(data.features) > 0
          => /\ data.features[1].type = "Feature"
             /\ data.features[1].geometry = "object"
             /\ data.features[1].GEOID = "string"

C21_Original ==
    [][geojsonStatus = "error"
          => IF RetryLoadGeojson
             THEN Len(geoRequests') = Len(geoRequests) + 1
             ELSE Len(geoRequests') = Len(geoRequests)
      ]_vars

\* C21: while the geometry status is error, no step other than an explicit
\* retry issues a geometry fetch; an explicit retry makes exactly one new
\* attempt: it re-attaches without a fetch when the source is still there or
\* the cached geometry can be added to the loaded style, and otherwise issues
\* exactly one new fetch and leaves the status loading.
C21_RetryOneAttempt ==
    [][geojsonStatus = "error"
          => IF RetryLoadGeojson
             THEN IF hasSource \/ (geojsonRef # NoGeo /\ engineStyle # NoStyle)
                  THEN /\ geoRequests' = geoRequests
                       /\ geojsonStatus' = "loaded"
                       /\ hasSource'
                  ELSE /\ geoRequests' = Append(geoRequests, "pending")
                       /\ geojsonStatus' = "loading"
             ELSE Len(geoRequests') = Len(geoRequests)
      ]_vars

\* a retry issued a fetch, and that fetch was answered and attached
C21_Witness ==
    /\ retryLog.path = "fetch"
    /\ geoRequests[retryLog.request] = "handled"
    /\ geojsonStatus = "loaded"

\* C22: the outcome of a structurally invalid geometry payload can be told
\* apart from the outcome of a network failure of the same fetch: no step in
\* which a live load handles an invalid payload is also a step in which that
\* load handles a failed response.
C22_DistinctErrorOutcomes ==
    [][\A n \in 1..Len(geoRequests), data \in Payloads :
          (/\ geoRequests[n] = "pending" /\ geoRequests'[n] = "handled"
           /\ ~validateGeoJSON(data)
           /\ GeoFetchSucceeds(n, data))
              => ~GeoFetchFails(n)
      ]_vars

\* ------------------------------------------------------------------------
\* Properties of the click wiring (checked under SpecMapClick)
\* ------------------------------------------------------------------------

\* the join key of the first clicked feature, or null
FirstKeyOrNull(features) ==
    IF features = <<>> THEN Null
    ELSE IF features[1].GEOID = Undefined THEN Null
    ELSE features[1].GEOID

\* C23: while the geometry is loaded exactly one click listener is registered
\* on the fill layer, so a click invokes the county-selected callback exactly
\* once, with the first clicked feature's join key, or with null when there
\* is no feature or no join key; after a restyle or the teardown (the layer
\* component is unmounted) no listener remains registered.
C23_OneClickListener ==
    [][/\ geojsonStatus' = "loaded" => clickListeners' = 1
       /\ ~mapReady' => clickListeners' = 0
       /\ \A features \in ClickEvents :
             (geojsonStatus = "loaded" /\ MapClick(features))
                 => clickLog' = <<FirstKeyOrNull(features)>>
      ]_vars

\* after a restyle the geometry was re-attached from the cache, and a click
\* then reached the callback once, with a county's key
C23_Witness ==
    /\ geojsonStatus = "loaded"
    /\ sourceData.by = "cache"
    /\ clickListeners = 1
    /\ Len(clickLog) = 1
    /\ clickLog[1] \in CountyFips

\* ------------------------------------------------------------------------
\* Properties of buildFillColorExpression (checked under SpecFill)
\* ------------------------------------------------------------------------

\* the fraction v is defined and equals the integer n
ValueIs(v, n) == v.den # 0 /\ v.num = n * v.den

\* every entry of es has the same value of the metric m
AllEqual(es, m) ==
    \A i \in 1..Len(es), j \in 1..Len(es) : MetricValue(es[i], m) = MetricValue(es[j], m)

\* C24: for a non-score metric and one or more entries that all have the same
\* value, no pair is the result of a division by zero and every entry is
\* mapped to 0, the minimum colour.
C24_EqualValuesMapToZero ==
    LET es == fillCall.scores.entries
        pairs == fillCall.result.match
    IN  (/\ fillCall # NoFillCall
         /\ fillCall.metric # "score"
         /\ Len(es) >= 1
         /\ AllEqual(es, fillCall.metric))
            => /\ Len(pairs) = Len(es)
               /\ \A i \in 1..Len(pairs) : ValueIs(pairs[i].value, 0)

\* three counties with establishmentCount 60 each were mapped to 0
C24_Witness ==
    /\ fillCall.metric = "establishmentCount"
    /\ Len(fillCall.scores.entries) = 3
    /\ \A i \in 1..3 : fillCall.scores.entries[i].establishmentCount = 60
    /\ \A i \in 1..3 : ValueIs(fillCall.result.match[i].value, 0)

\* what C25 says of every call but for the value of a non-score metric: one
\* pair per entry under the entry's join key, the raw score for 'score', the
\* default 0 and the stops 0, 50, 100
PairsWellFormed ==
    LET es == fillCall.scores.entries
        pairs == fillCall.result.match
    IN  /\ Len(pairs) = Len(es)
        /\ \A i \in 1..Len(es) : pairs[i].fips = es[i].fips
        /\ fillCall.metric = "score"
              => \A i \in 1..Len(es) : pairs[i].value = Frac(es[i].score, 1)
        /\ fillCall.result.fallback = 0
        /\ [k \in 1..Len(fillCall.result.stops) |-> fillCall.result.stops[k].value]
              = <<0, 50, 100>>

\* for a non-score metric the entries with the least value are mapped to 0,
\* those with the greatest to 100, and every value lies in 0..100
MinToZeroMaxToHundred ==
    LET es == fillCall.scores.entries
        m == fillCall.metric
        pairs == fillCall.result.match
    IN  \A i \in 1..Len(es) :
           /\ pairs[i].value.den > 0
           /\ 0 <= pairs[i].value.num
           /\ pairs[i].value.num <= 100 * pairs[i].value.den
           /\ (\A j \in 1..Len(es) : MetricValue(es[i], m) <= MetricValue(es[j], m))
                 => ValueIs(pairs[i].value, 0)
           /\ (\A j \in 1..Len(es) : MetricValue(es[i], m) >= MetricValue(es[j], m))
                 => ValueIs(pairs[i].value, 100)

\* the value of a non-score metric is (raw - min) / (max - min) * 100
ScaledBetween(lo, hi) ==
    LET es == fillCall.scores.entries
        pairs == fillCall.result.match
    IN  \A i \in 1..Len(es) :
           /\ pairs[i].value.den # 0
           /\ pairs[i].value.num * (hi - lo)
                 = (MetricValue(es[i], fillCall.metric) - lo) * 100 * pairs[i].value.den

\* the least and the greatest value of the metric over the entries of the call
CallMin ==
    LET es == fillCall.scores.entries
        values == {MetricValue(es[i], fillCall.metric) : i \in 1..Len(es)}
    IN  CHOOSE v \in values : \A w \in values : v <= w
CallMax ==
    LET es == fillCall.scores.entries
        values == {MetricValue(es[i], fillCall.metric) : i \in 1..Len(es)}
    IN  CHOOSE v \in values : \A w \in values : v >= w

\* C25 as stated: each entry's join key is paired with one value, the raw
\* score for 'score' and (raw - min) / (max - min) * 100 for any other metric
\* with min and max taken over all entries, so that the minimum maps to 0, the
\* maximum to 100 and every value lies in 0..100; the default is 0 and the
\* stops are 0, 50 and 100.
C25_Original ==
    fillCall # NoFillCall
        => /\ PairsWellFormed
           /\ (fillCall.metric # "score" /\ Len(fillCall.scores.entries) >= 1)
                 => ScaledBetween(CallMin, CallMax) /\ MinToZeroMaxToHundred

\* C25: each entry's join key is paired with one value, the raw score for
\* 'score'; for any other metric whose values are not all equal the value is
\* (raw - min) / (max - min) * 100 with min and max taken over all entries,
\* so that the minimum maps to 0, the maximum to 100 and every value lies in
\* 0..100, and when all values are equal the value is (raw - min) / 1 * 100,
\* which is 0; the default is 0 and the stops are 0, 50 and 100.
C25_Normalised ==
    fillCall # NoFillCall
        => /\ PairsWellFormed
           /\ (fillCall.metric # "score" /\ Len(fillCall.scores.entries) >= 1)
                 => IF AllEqual(fillCall.scores.entries, fillCall.metric)
                    THEN ScaledBetween(CallMin, CallMin + 1)
                    ELSE ScaledBetween(CallMin, CallMax) /\ MinToZeroMaxToHundred

\* the entries {A: 10, B: 110} under establishmentCount gave {A: 0, B: 100}
C25_Witness ==
    /\ fillCall.metric = "establishmentCount"
    /\ Len(fillCall.scores.entries) = 2
    /\ fillCall.scores.entries[1].establishmentCount = 10
    /\ fillCall.scores.entries[2].establishmentCount = 110
    /\ ValueIs(fillCall.result.match[1].value, 0)
    /\ ValueIs(fillCall.result.match[2].value, 100)

\* ------------------------------------------------------------------------
\* Properties of the scores and topCounties memos (checked under SpecMemo)
\* ------------------------------------------------------------------------

\* the entries of a score set, null having none
EntrySet(scores) == {scores.entries[i] : i \in 1..Len(scores.entries)}

\* the entries of the raw score set that the state filter lets through
Filtered(raw, filter) ==
    IF filter = AllStates THEN EntrySet(raw)
    ELSE {e \in EntrySet(raw) : e.state = filter}

\* a comes before b in the order of the list: higher score first, equal
\* scores by fips ascending
RanksBefore(a, b) ==
    a.score > b.score \/ (a.score = b.score /\ FipsLess(a.fips, b.fips))

\* C26: the top-counties list holds the state-filtered entries sorted by score
\* descending, entries of equal score by fips ascending, cut to the first 10
\* (so it does not depend on the order of the entries in the input).
C26_TopCountiesOrdered ==
    LET top == memoCall.top
        all == Filtered(memoCall.raw, memoCall.filter)
        shown == {top[i] : i \in 1..Len(top)}
    IN  memoCall.called
            => /\ Len(top) = (IF Cardinality(all) < 10 THEN Cardinality(all) ELSE 10)
               /\ shown \subseteq all
               /\ \A i \in 1..Len(top), j \in 1..Len(top) :
                     i < j => RanksBefore(top[i], top[j])
               /\ \A a \in shown, b \in all \ shown : RanksBefore(a, b)

\* C27: with a null filter the filtered score set is the raw score set itself;
\* otherwise it holds exactly the raw entries whose state equals the filter,
\* each once and unmodified; the raw score set is left as it was.
C27_FilterExact ==
    memoCall.called
        => /\ memoCall.filter = AllStates => memoCall.scores = memoCall.raw
           /\ memoCall.scores.isNull = memoCall.raw.isNull
           /\ EntrySet(memoCall.scores) = Filtered(memoCall.raw, memoCall.filter)
           /\ Len(memoCall.scores.entries)
                 = Cardinality(Filtered(memoCall.raw, memoCall.filter))

\* a file with counties of CA, FL and TX was filtered by TX down to the one
\* TX county
C27_Witness ==
    /\ memoCall.called
    /\ memoCall.filter = "TX"
    /\ Len(memoCall.raw.entries) = 4
    /\ Len(memoCall.scores.entries) = 1
    /\ memoCall.scores.entries[1].state = "TX"

\* ------------------------------------------------------------------------
\* Properties of the fit-bounds effect (checked under SpecFit)
\* ------------------------------------------------------------------------

\* the region code of a listed abbreviation
RegionCodes(abbr) ==
    {stateList[i].fips : i \in {j \in 1..Len(stateList) : stateList[j].abbreviation = abbr}}

\* all positions of the features of `geojson` of region `code` that are not
\* geometry collections (a null geometry has none)
MatchingPositions(geojson, code) ==
    UNION { Walk(geojson.features[i].geometry.coordinates) :
              i \in {j \in 1..Len(geojson.features) :
                        /\ geojson.features[j].STATE = code
                        /\ geojson.features[j].geometry.type # "GeometryCollection"} }

\* C28: with a null filter the engine is asked to fly to the default centre
\* and zoom; with any other filter a fit is requested only if the
\* abbreviation resolves to a region code, geometry is cached, a feature
\* matches and the box has min < max on both axes, and the box is then the
\* least and greatest longitude and latitude over all coordinates of the
\* matching features other than geometry collections; otherwise the engine
\* is not called.
C28_FitBoundsExact ==
    fitCall.called =>
        IF fitCall.filter = AllStates
        THEN fitCall.call = [op |-> "flyTo", args |-> <<-985, 398, 4>>]
        ELSE LET codes == RegionCodes(fitCall.filter)
                 geo == fitCall.geojson
                 pts == IF codes = {} THEN {}
                        ELSE MatchingPositions(geo, CHOOSE c \in codes : TRUE)
                 lngs == {q[1] : q \in pts}
                 lats == {q[2] : q \in pts}
             IN  IF /\ codes # {}
                    /\ ~geo.isNull
                    /\ pts # {}
                    /\ Least(lngs) < Greatest(lngs)
                    /\ Least(lats) < Greatest(lats)
                 THEN /\ fitCall.call.op = "fitBounds"
                      /\ SubSeq(fitCall.call.args, 1, 4)
                            = <<Least(lngs), Least(lats), Greatest(lngs), Greatest(lats)>>
                 ELSE fitCall.call.op = "none"

\* with filter TX, a cache holding a TX multi-polygon and a CA polygon gave a
\* fit to the box of the TX coordinates alone
C28_Witness ==
    /\ fitCall.called
    /\ fitCall.filter = "TX"
    /\ Len(fitCall.geojson.features) = 2
    /\ fitCall.geojson.features[1].geometry.type = "MultiPolygon"
    /\ fitCall.geojson.features[2].STATE = "06"
    /\ fitCall.call = [op |-> "fitBounds", args |-> <<-105, 26, -98, 29, 40, 10>>]

\* ------------------------------------------------------------------------
\* Properties of MapTooltip (checked under SpecTooltip)
\* ------------------------------------------------------------------------

\* C29: at most one tooltip update is scheduled at any time, and a frame
\* that ends a burst of k >= 1 pointer-moves makes exactly one tooltip state
\* update, the one derived from the last event of the burst.
C29_OneUpdatePerBurst ==
    /\ Len(rafQueue) <= 1
    /\ (frameLog.ran /\ frameLog.k >= 1) =>
          frameLog.updates = <<frameTooltip(frameLog.last, frameLog.scores)>>

\* a frame ended a burst of three pointer-moves with one update, and the
\* tooltip shows the county under the last of them
C29_Witness ==
    /\ frameLog.ran
    /\ frameLog.k = 3
    /\ frameLog.ids = <<3>>
    /\ tooltip.shown
    /\ tooltip.countyName = "Harris"
    /\ frameLog.updates = <<tooltip>>

\* C30: a pointer-leave cancels the pending frame and clears the tooltip at
\* once, and no frame callback scheduled before the leave runs after it.
C30_LeaveCancelsAndClears ==
    /\ [][handleMouseLeave =>
            (rafQueue' = <<>> /\ rafRef' = 0 /\ ~tooltip'.shown)]_vars
    /\ [](\A i \in 1..Len(frameLog.ids) : frameLog.ids[i] >= leaveMark.at)

\* a pointer-leave found the frame of the second pointer-move pending; the
\* frame that ran after it ran the callback of a later pointer-move only
C30_Witness ==
    /\ tipMounted
    /\ leaveMark = [at |-> 3, pending |-> 2]
    /\ frameLog.ran
    /\ frameLog.ids = <<3>>
    /\ tooltip.shown

\* C31: once the tooltip component is torn down, neither of its two
\* handlers is registered, no frame is scheduled, and neither a frame
\* callback nor the leave handler sets the tooltip until it mounts again.
C31_TeardownComplete ==
    ~tipMounted =>
        /\ tipListeners = {}
        /\ rafQueue = <<>>
        /\ rafRef = 0
        /\ ~frameLog.ran
        /\ leaveMark.at = 0
        /\ ~tooltip.shown

\* the component was torn down while the frame of the second pointer-move
\* was pending
C31_Witness ==
    /\ ~tipMounted
    /\ leaveMark.pending = 2
    /\ tipListeners = {}
    /\ rafQueue = <<>>

\* ------------------------------------------------------------------------
\* Properties of MapErrorBoundary (checked under SpecBoundary)
\* ------------------------------------------------------------------------

\* C32: an error thrown by a child while rendering never reaches the
\* application above the boundary; the boundary is then in its error state
\* and shows the fallback instead of the children; it leaves the error state
\* only by Retry, and Retry renders the children again (they show, or their
\* new error is caught).
C32_BoundaryIsolates ==
    /\ [](~appCrashed)
    /\ [](hasError <=> rendered = "fallback")
    /\ [](~hasError => rendered = "children" /\ childFault = NoFault)
    /\ [][(hasError /\ ~hasError') => RetryBoundary]_vars
    /\ [][RetryBoundary =>
            IF childFault = NoFault
            THEN ~hasError' /\ rendered' = "children"
            ELSE hasError' /\ consoleLog' = Append(consoleLog, childFault)]_vars

\* a child threw, the fallback stayed while the children changed to ones
\* that render, and Retry then brought the children back
C32_Witness ==
    /\ consoleLog = <<"Test error">>
    /\ childFault = NoFault
    /\ ~hasError
    /\ rendered = "children"

\* ------------------------------------------------------------------------
\* Properties across the hooks and the map
\* ------------------------------------------------------------------------

\* C33: with a null industry id the exposed scores are null (the scores prop
\* of the map), and then the fill layer the engine holds is painted the flat
\* no-data colour. (Checked under SpecMap; that a null id gives null scores,
\* an empty list and no fetch is NullIdNoScores, under SpecIndustry.)
C33_NullScoresFlatFill ==
    (mapScores.isNull /\ hasSource) => fillColor = FlatPaint(NO_DATA_COLOR)

\* the hook's part of C33: a null id leaves no scores, no error, no loading
\* flag and no live fetch
NullIdNoScores ==
    (mounted /\ selectedIndustryId = Null)
        => (rawScores = NoScores /\ effectLoad = 0 /\ scoresError = NoError
            /\ ~scoresLoading)

\* a step of the hook that starts a catalog load
StartsCatalogLoad == NextIndustry /\ ~catalogPending /\ catalogPending'

\* C34: after a failed catalog fetch the catalog is empty, the catalog error
\* is set and loading has ended, and the catalog load can be invoked again:
\* some operation of the mounted hook starts it.
C34_CatalogRetryable ==
    (mounted /\ industriesError # NoError)
        => /\ industries = {}
           /\ ~industriesLoading
           /\ ENABLED StartsCatalogLoad

\* the part of C34 that holds: the state a failed catalog fetch leaves, for
\* as long as the hook is mounted
CatalogFailureStays ==
    (mounted /\ industriesError # NoError)
        => (industries = {} /\ ~industriesLoading /\ ~catalogPending)

\* C35: whenever the exposed score set is not null it is the score set of
\* the selected industry id, also while that id's fetch is pending and after
\* it failed.
C35_ScoresOfSelectedId ==
    (mounted /\ rawScores # NoScores) => rawScores.industry = selectedIndustryId

\* C36: whenever the geometry status is 'loaded' the engine holds the county
\* source with its fill and outline layers, also when the fallback timer
\* restored readiness before the engine finished swapping styles.
C36_LoadedHasLayers ==
    geojsonStatus = "loaded" => hasSource

\* C37: whenever the geometry status is 'loaded' the cached geometry is
\* stored and the fit-bounds effect has run with the current state filter
\* and that geometry; for a filter selected before the geometry was loaded
\* the fit is thus requested when the status turns 'loaded', with no further
\* filter change. (Checked under SpecMapFit.)
C37_FitAfterLoad ==
    (engine = "live" /\ geojsonStatus = "loaded")
        => /\ geojsonRef # NoGeo
           /\ fitLog.filter = mapFilter
           /\ fitLog.status = "loaded"
           /\ fitLog.call = fitBoundsEffect(mapFilter, FitView(geojsonRef))
           /\ (mapFilter = "TX" /\ Len(geojsonRef.features) > 0)
                 => fitLog.call.op = "fitBounds"

\* TX was selected while the one geometry fetch was pending; when the fetch
\* succeeded the effect ran on the status change and requested the fit to
\* the two counties of the file
C37_Witness ==
    /\ engine = "live"
    /\ geojsonStatus = "loaded"
    /\ mapFilter = "TX"
    /\ fitLog.trigger = "status"
    /\ geoRequests = <<"handled">>
    /\ sourceData.by = "fetch"
    /\ fitLog.call = [op |-> "fitBounds", args |-> <<-102, 30, -96, 34, 40, 10>>]

\* C38: while the catalog is loading no score fetch has been issued; after
\* a failed catalog load a selected id (the empty string counts as no
\* selection) has a validation error and no score fetch exists; and when the
\* catalog load succeeds with an id selected, that id is validated then: a
\* well-formed id of the catalog is fetched, any other gets a validation
\* error and no fetch.
C38_CatalogGatesFetch ==
    /\ [](industriesLoading => (scoreRequests = <<>> /\ ~scoresLoading))
    /\ []((mounted /\ industriesError # NoError /\ ~IsFalsyId(selectedIndustryId))
            => /\ IsValidationError(scoresError, selectedIndustryId)
               /\ rawScores = NoScores
               /\ scoreRequests = <<>>)
    /\ [][(/\ industriesLoading /\ ~industriesLoading'
           /\ industriesError' = NoError
           /\ ~IsFalsyId(selectedIndustryId))
              => IF ID_FORMAT(selectedIndustryId) /\ selectedIndustryId \in industriesRef'
                 THEN /\ scoreRequests' = <<selectedIndustryId>>
                      /\ scoresLoading'
                      /\ scoresError' = NoError
                 ELSE /\ scoreRequests' = <<>>
                      /\ IsValidationError(scoresError', selectedIndustryId)]_vars

\* the catalog load has failed and a well-formed id, selected since, is
\* rejected as unknown with no fetch
C38_Witness ==
    /\ mounted
    /\ industriesError # NoError
    /\ selectedIndustryId = IdCoffee
    /\ scoresError = ErrUnknownId(IdCoffee)
    /\ scoreRequests = <<>>

====
